---- MODULE Spec2Model ----
(***************************************************************************)
(* Metering engine of sustainable-personal-accounts                        *)
(* (code/on_account_event_then_meter_handler.py): lifecycle events open    *)
(* and close timed transactions kept in a key-value datastore (the         *)
(* ledger), and closing a transaction emits a completion event.            *)
(*                                                                         *)
(* Each Lambda invocation is a small process: it is delivered one event    *)
(* and walks through the statements of handle_account_event that touch the *)
(* datastore or the event bus, one statement per step.  Spec runs one      *)
(* invocation at a time; SpecConc lets two invocations interleave.         *)
(***************************************************************************)
EXTENDS Integers, Sequences, FiniteSets, TLC

\* ---------------------------------------------------------------- bounds
MaxTime == 2          \* the clock runs over 0..MaxTime
MaxDeliveries == 3    \* events delivered to the handler in one behaviour of Spec
MaxConcDeliveries == 3  \* events delivered in one behaviour of SpecConc
TtlSeconds == 2       \* time-to-live of a datastore record, in clock ticks

Accounts == {"a1", "a2"}
Kinds == {"Maintenance", "OnBoarding"}
\* The three labels the handler recognises and one it does not.
Labels == {"CreatedAccount", "ExpiredAccount", "ReleasedAccount", "PreparedAccount"}
Recognised == {"CreatedAccount", "ExpiredAccount", "ReleasedAccount"}
Invocations == {1, 2}
SeqInvocations == {1}

\* ----------------------------------------------------------------- state
VARIABLES
    datastore,    \* the ledger: key -> [value, expiration], stored keys only
    now,          \* what time() returns
    nextId,       \* the next identifier uuid4() hands out
    emitted,      \* events put on the bus by Events.emit_spa_event, in order
    pc,           \* position of each invocation in the handler
    input,        \* the decoded event of each invocation
    transaction,  \* the local variable 'transaction' of each invocation
    result,       \* what each invocation returned last
    out,          \* history: events emitted by each invocation so far
    openAt,       \* history: kind -> the datastore record readable at delivery, NoRecord if none
    prev,         \* history: the invocation that returned last
    delivered,    \* history: number of events delivered so far
    started,      \* history: identifier -> key and begin of the starting event that wrote it
    raced,        \* history: identifiers retrieved again before their first reader deleted them
    lost,         \* history: identifiers deleted unread by a handler, or deleted and not emitted
    tags,         \* the organization's tag store: account -> tag key -> value
    status,       \* the organization's account status: account -> ACTIVE or SUSPENDED
    environ,      \* os.environ: the value of DRY_RUN (Unset when not defined)
    calls,        \* history: the requests sent to the organizations client, in order
    lastCall,     \* history: the last call of a method of Account and how it ended
    scan,         \* the Maintenance Scanner: position, accounts left, outcome
    today,        \* what date.today() returns
    table,        \* the metering records of the key-value store, in stamp order
    bucket,       \* the reports bucket: object key -> body
    reporting,    \* history: the last run of a reporting handler
    worker,       \* Worker.prepare / Worker.purge: the invocation and its requests
    alert,        \* on_alert_handler: the batch being handled and what was published
    download      \* download_attachment: the last request, its answer, the objects read

\* The state of the metering engine, and the state of the accounts.
meterVars == <<datastore, now, nextId, emitted, pc, input, transaction, result,
               out, openAt, prev, delivered, started, raced, lost>>
accountVars == <<tags, status, environ, calls, lastCall, scan>>
reportVars == <<today, table, bucket, reporting>>
toolVars == <<worker, alert, download>>

vars == <<meterVars, accountVars, reportVars, toolVars>>

\* Python's None, and also the empty dict: both are falsy in 'if transaction:'.
None == <<>>

NoInput == [label |-> "none", account |-> "none"]
NoRecord == [value |-> None, expiration |-> 0]
NoOpen == [k \in Kinds |-> NoRecord]
NoPrev == [label |-> "none", account |-> "none", out |-> <<>>, openAt |-> NoOpen,
           returnedAt |-> 0]

\* f"{Kind} {account}"
Key(kind, account) == <<kind, account>>

\* ------------------------------------------------------------- datastore
\* Datastore.retrieve(key): absent when never written, deleted or past expiration.
retrieve(key) ==
    IF key \in DOMAIN datastore /\ now < datastore[key].expiration
    THEN datastore[key].value
    ELSE None

\* Datastore.assign(key, value): single-key upsert; assign(key, None) deletes.
assign(key, value) ==
    IF value = None
    THEN [k \in DOMAIN datastore \ {key} |-> datastore[k]]
    ELSE [k \in DOMAIN datastore \cup {key} |->
             IF k = key THEN [value |-> value, expiration |-> now + TtlSeconds]
                        ELSE datastore[k]]

\* Events.emit_spa_event(label, payload)
emit_spa_event(label, payload) == Append(emitted, [label |-> label, payload |-> payload])

\* -------------------------------------------------------------- accounts
\* code/account.py.  Python values that the code compares or type-checks carry
\* their type: 'released' and State.RELEASED are different values.
PyStr(text) == [type |-> "str", value |-> text]
PyNone == [type |-> "NoneType", value |-> "None"]

\* class State(Enum)
StateValues == {"vanilla", "assigned", "released", "expired"}
State == {[type |-> "State", value |-> v] : v \in StateValues}
RELEASED == [type |-> "State", value |-> "released"]
EXPIRED == [type |-> "State", value |-> "expired"]

\* What a caller may hand to move as 'state': the members, an object that only
\* carries a 'value' attribute, and raw strings.
MoveArguments ==
    State \cup {[type |-> "SimpleNamespace", value |-> "*something*"],
                [type |-> "SimpleNamespace", value |-> "released"],
                PyStr("released"), PyStr("expired")}

Ids == {"id1", "id2", "id3"}
Unset == "(unset)"
DryRunValues == {"FALSE", "false", "true", "", Unset}

\* The tag keys of the model, in the order the provider lists them.
TagOrder == <<"account:owner", "account:state", "another_tag">>
TagKeys == {TagOrder[i] : i \in DOMAIN TagOrder}

\* The owner values of the model, each with its characters.
OwnerChars ==
    [o \in {"a@b.cc", "a.b@c.cc", "a-b@c.cc", "a@b@c.cc", "a b", "a@b.c"} |->
        CASE o = "a@b.cc"   -> <<"a", "@", "b", ".", "c", "c">>
          [] o = "a.b@c.cc" -> <<"a", ".", "b", "@", "c", ".", "c", "c">>
          [] o = "a-b@c.cc" -> <<"a", "-", "b", "@", "c", ".", "c", "c">>
          [] o = "a@b@c.cc" -> <<"a", "@", "b", "@", "c", ".", "c", "c">>
          [] o = "a b"      -> <<"a", " ", "b">>
          [] o = "a@b.c"    -> <<"a", "@", "b", ".", "c">>]
Owners == DOMAIN OwnerChars

\* The code point of a character.
Ord(c) ==
    CASE c = " " -> 32 [] c = "-" -> 45 [] c = "." -> 46 [] c = "@" -> 64
      [] c = "_" -> 95 [] c = "a" -> 97 [] c = "b" -> 98 [] c = "c" -> 99

\* The character classes of VALID_EMAIL, as sets of code points.
Alnum == (48..57) \cup (65..90) \cup (97..122)      \* [A-Za-z0-9]
Separator == 46..95                                 \* [.-_], a range
DomainChar == Alnum \cup {45}                       \* [A-Za-z0-9-]
TldChar == (65..90) \cup (97..122) \cup {124}       \* [A-Z|a-z]

\* All of s[from..to] are of the class, and the stretch is not empty.
Run(s, from, to, class) ==
    from <= to /\ \A i \in from..to : Ord(s[i]) \in class

\* re.fullmatch of ([A-Za-z0-9]+ sep)*[A-Za-z0-9]+@[A-Za-z0-9-]+(\.tld{2,})+,
\* the separator and top-level-domain classes being given.
FullMatch(s, sep, tld) ==
    LET n == Len(s)
        \* s[1..i] is a sequence of groups: alphanumerics then one separator
        Groups[i \in 0..n] ==
            \/ i = 0
            \/ /\ i >= 2
               /\ Ord(s[i]) \in sep
               /\ \E j \in 0..(i - 2) : Groups[j] /\ Run(s, j + 1, i - 1, Alnum)
        \* s[1..i] is the local part
        Local(i) == \E j \in 0..(i - 1) : Groups[j] /\ Run(s, j + 1, i, Alnum)
        \* s[j+1..n] is a sequence of dotted labels of two characters or more
        Labels_[j \in 0..n] ==
            /\ j + 3 <= n
            /\ s[j + 1] = "."
            /\ \E k \in (j + 3)..n :
                  /\ Run(s, j + 2, k, tld)
                  /\ (k = n \/ Labels_[k])
    IN \E i \in 1..n : \E j \in (i + 2)..n :
          /\ Local(i)
          /\ s[i + 1] = "@"
          /\ Run(s, i + 2, j, DomainChar)
          /\ Labels_[j]

\* Account.validate_owner: re.fullmatch(VALID_EMAIL, text)
validate_owner(text) == FullMatch(OwnerChars[text], Separator, TldChar)

\* Account.validate_state: text in [state.value for state in State]
validate_state(text) == text \in {m.value : m \in State}

\* A page of the tag listing holds at most this many tags.
TagPageSize == 2

\* Listings in which a key comes more than once, as a client standing for the
\* provider may answer: twice next to each other, and again three tags later.
Repeating ==
    [r \in {"repeated1", "repeated2"} |->
        IF r = "repeated1"
        THEN <<[Key |-> "account:owner", Value |-> "a@b.cc"],
               [Key |-> "account:owner", Value |-> "a.b@c.cc"],
               [Key |-> "account:state", Value |-> "vanilla"]>>
        ELSE <<[Key |-> "account:state", Value |-> "vanilla"],
               [Key |-> "account:owner", Value |-> "a@b.cc"],
               [Key |-> "another_tag", Value |-> "another_value"],
               [Key |-> "account:state", Value |-> "released"],
               [Key |-> "another_tag", Value |-> "yet_another_value"]>>]

\* The tags of an account as the provider lists them, in TagOrder.
TagItems(account) ==
    IF account \in DOMAIN Repeating THEN Repeating[account]
    ELSE LET present == SelectSeq(TagOrder, LAMBDA k : k \in DOMAIN tags[account])
         IN [i \in DOMAIN present |->
                [Key |-> present[i], Value |-> tags[account][present[i]]]]

\* organizations.list_tags_for_resource(ResourceId, NextToken): one page; the
\* token is the position of the first tag of the next page, 0 for none.
list_tags_for_resource(account, token) ==
    LET items == TagItems(account)
        first == IF token = 0 THEN 1 ELSE token
        end == IF first + TagPageSize - 1 < Len(items) THEN first + TagPageSize - 1
                                                       ELSE Len(items)
    IN [Tags |-> SubSeq(items, first, end),
        NextToken |-> IF end < Len(items) THEN end + 1 ELSE 0]

iterate_tags_first_chunk(account, token) == list_tags_for_resource(account, token).Tags

\* Account.iterate_tags: the tags of every page, page after page, while there is a token.
RECURSIVE iterate_tags_from(_, _)
iterate_tags_from(account, token) ==
    LET chunk == list_tags_for_resource(account, token)
    IN chunk.Tags \o (IF chunk.NextToken # 0
                      THEN iterate_tags_from(account, chunk.NextToken)
                      ELSE <<>>)

iterate_tags(account) == iterate_tags_from(account, 0)

\* The requests iterate_tags sends.
RECURSIVE tag_requests_from(_, _)
tag_requests_from(account, token) ==
    LET chunk == list_tags_for_resource(account, token)
    IN <<[api |-> "list_tags_for_resource", ResourceId |-> account,
          Tags |-> <<>>, NextToken |-> token]>>
       \o (IF chunk.NextToken # 0 THEN tag_requests_from(account, chunk.NextToken)
                                  ELSE <<>>)

RECURSIVE collect_tags_keeping_first(_, _)
collect_tags_keeping_first(items, found) ==
    IF items = <<>> THEN found
    ELSE collect_tags_keeping_first(Tail(items),
            [k \in DOMAIN found \cup {Head(items).Key} |->
                IF k \in DOMAIN found THEN found[k] ELSE Head(items).Value])

\* 'for item in ...: tags[item.get('Key')] = item.get('Value')': each item in
\* turn is assigned into the mapping found so far.
RECURSIVE collect_tags(_, _)
collect_tags(items, found) ==
    IF items = <<>> THEN found
    ELSE collect_tags(Tail(items),
            [k \in DOMAIN found \cup {Head(items).Key} |->
                IF k = Head(items).Key THEN Head(items).Value ELSE found[k]])

\* The order of the keys of the dict: a key stands where it was first assigned.
RECURSIVE collect_keys(_, _)
collect_keys(items, order) ==
    IF items = <<>> THEN order
    ELSE collect_keys(Tail(items),
            IF \E i \in DOMAIN order : order[i] = Head(items).Key
            THEN order ELSE Append(order, Head(items).Key))

\* Account.list_tags
list_tags(account) == collect_tags(iterate_tags(account), <<>>)
list_tags_keys(account) == collect_keys(iterate_tags(account), <<>>)

\* tags.get(key)
Get(mapping, key) == IF key \in DOMAIN mapping THEN PyStr(mapping[key]) ELSE PyNone

validate_tags_state_first(account) ==
    LET found == list_tags(account)
    IN IF "account:state" \notin DOMAIN found THEN "Missing tag 'account:state'"
       ELSE IF ~validate_state(found["account:state"]) THEN "Invalid value for tag 'account:state'"
       ELSE IF "account:owner" \notin DOMAIN found THEN "Missing tag 'account:owner'"
       ELSE IF ~validate_owner(found["account:owner"]) THEN "Invalid value for tag 'account:owner'"
       ELSE "none"

\* Account.validate_tags: the error it raises, "none" when it raises nothing.
validate_tags(account) ==
    LET found == list_tags(account)
    IN IF "account:owner" \notin DOMAIN found THEN "Missing tag 'account:owner'"
       ELSE IF ~validate_owner(found["account:owner"]) THEN "Invalid value for tag 'account:owner'"
       ELSE IF "account:state" \notin DOMAIN found THEN "Missing tag 'account:state'"
       ELSE IF ~validate_state(found["account:state"]) THEN "Invalid value for tag 'account:state'"
       ELSE "none"

tag_resource_replacing(account, items) ==
    [tags EXCEPT ![account] =
        [k \in {items[i].Key : i \in DOMAIN items} |->
            items[CHOOSE i \in DOMAIN items : items[i].Key = k].Value]]

\* organizations.tag_resource(ResourceId, Tags): the tag store after the request.
tag_resource(account, items) ==
    LET written == {items[i].Key : i \in DOMAIN items}
        valueOf(k) == (CHOOSE i \in DOMAIN items : items[i].Key = k)
    IN [tags EXCEPT ![account] =
           [k \in DOMAIN tags[account] \cup written |->
               IF k \in written THEN items[valueOf(k)].Value ELSE tags[account][k]]]

SetState(account, value) ==
    LET items == <<[Key |-> "account:state", Value |-> value]>>
    IN [raised |-> "none",
        tags |-> [tags EXCEPT ![account] =
                     [k \in DOMAIN tags[account] \cup {"account:state"} |->
                         IF k = "account:state" THEN value ELSE tags[account][k]]],
        calls |-> Append(calls, [api |-> "tag_resource", ResourceId |-> account,
                                 Tags |-> items, NextToken |-> 0])]

Refused(message) == [raised |-> message, tags |-> tags, calls |-> calls]

move_duck_typed(account, state) ==
    IF state.value \notin StateValues THEN Refused("Unexpected state type")
    ELSE IF environ = "FALSE" THEN SetState(account, state.value)
    ELSE Refused("none")

move_dry_run_by_word(account, state) ==
    IF state.type # "State" THEN Refused("Unexpected state type")
    ELSE IF environ \in {"true", Unset} THEN Refused("none")
    ELSE SetState(account, state.value)

Rank(value) == CASE value = "vanilla" -> 1 [] value = "assigned" -> 2
                 [] value = "released" -> 3 [] value = "expired" -> 4 [] OTHER -> 0

move_forward_only(account, state) ==
    IF state.type # "State" THEN Refused("Unexpected state type")
    ELSE IF Rank(Get(list_tags(account), "account:state").value) > Rank(state.value)
    THEN Refused("Unexpected state transition")
    ELSE IF environ = "FALSE" THEN SetState(account, state.value)
    ELSE Refused("none")

\* Account.move: what it raises, and the tag store and the requests after it.
move(account, state) ==
    IF state.type # "State"
    THEN [raised |-> "Unexpected state type", tags |-> tags, calls |-> calls]
    ELSE IF environ = "FALSE"
    THEN LET items == <<[Key |-> "account:state", Value |-> state.value]>>
         IN [raised |-> "none",
             tags |-> tag_resource(account, items),
             calls |-> Append(calls, [api |-> "tag_resource", ResourceId |-> account,
                                      Tags |-> items, NextToken |-> 0])]
    ELSE [raised |-> "none", tags |-> tags, calls |-> calls]

\* Account.describe: the attributes the scanner reads.
describe(id) ==
    [id |-> id, is_active |-> (status[id] = "ACTIVE"), tags |-> list_tags(id)]

\* No method of Account has been called, and no scan has run.
NoScan == [pc |-> "idle", todo |-> <<>>, examined |-> <<>>, moved |-> <<>>,
           eligible |-> {}, runs |-> 0, previous |-> "none", left |-> {}]
NoCall(store) == [method |-> "none", account |-> "none", argument |-> PyNone,
                  raised |-> "none", returned |-> PyNone, before |-> store,
                  requests |-> 0, nth |-> 0]

\* The accounts as the metering engine leaves them: it never looks at them.
AccountsAtRest ==
    /\ tags = [a \in Ids |-> <<>>]
    /\ status = [a \in Ids |-> "ACTIVE"]
    /\ environ = Unset
    /\ calls = <<>>
    /\ lastCall = NoCall(tags)
    /\ scan = NoScan

\* --------------------------------------------------------------- reports
\* The days of a month the reports are run on, the records a table holds at
\* most, and the runs of a reporting handler in one behaviour.
MaxDay == 5
MaxRecords == 3
MaxRuns == 2

\* datetime.date, and the dates of the model in calendar order: the first days
\* of February 2024, then the first of March.
Date(y, m, d) == [year |-> y, month |-> m, day |-> d]
Dates == [i \in 1..(MaxDay + 1) |-> IF i <= MaxDay THEN Date(2024, 2, i) ELSE Date(2024, 3, 1)]

\* Decimal digits as characters, and a number written over a width with zeros.
Digits == <<"0", "1", "2", "3", "4", "5", "6", "7", "8", "9">>
Digit(n) == Digits[n + 1]
Power10(e) == IF e = 0 THEN 1 ELSE IF e = 1 THEN 10 ELSE IF e = 2 THEN 100 ELSE 1000
Zfill(n, width) == [i \in 1..width |-> Digit((n \div Power10(width - i)) % 10)]

\* date.isoformat(): 'YYYY-MM-DD', as characters; date.replace(day=...)
isoformat(d) == Zfill(d.year, 4) \o <<"-">> \o Zfill(d.month, 2) \o <<"-">> \o Zfill(d.day, 2)
replace(d, day) == [d EXCEPT !.day = day]

\* datetime.date arithmetic: the days of a month, and d - timedelta(days=1).
IsLeap(y) == y % 4 = 0 /\ (y % 100 # 0 \/ y % 400 = 0)
DaysInMonth(y, m) ==
    IF m = 2 THEN (IF IsLeap(y) THEN 29 ELSE 28)
    ELSE IF m \in {4, 6, 9, 11} THEN 30 ELSE 31
minus_one_day(d) ==
    IF d.day > 1 THEN Date(d.year, d.month, d.day - 1)
    ELSE IF d.month > 1 THEN Date(d.year, d.month - 1, DaysInMonth(d.year, d.month - 1))
    ELSE Date(d.year - 1, 12, 31)
plus_one_day(d) ==
    IF d.day < DaysInMonth(d.year, d.month) THEN Date(d.year, d.month, d.day + 1)
    ELSE IF d.month < 12 THEN Date(d.year, d.month + 1, 1)
    ELSE Date(d.year + 1, 1, 1)

\* Mutant: the monthly run reports the month of the run.
last_day_of_previous_month_as_given(day) == day

\* handle_monthly_reporting: day.replace(day=1) - timedelta(days=1)
last_day_of_previous_month(day) == minus_one_day(replace(day, 1))

\* datetime.isoformat() at the t-th second of a day, 'YYYY-MM-DDT00:00:SS', and
\* datetime.utcnow().isoformat()
datetime_isoformat(d, t) == isoformat(d) \o <<"T", "0", "0", ":", "0", "0", ":">> \o Zfill(t, 2)
utcnow_isoformat(t) == datetime_isoformat(today, t)

get_hashes_of_month(day) ==
    LET d == IF day = None THEN today ELSE day
    IN [x \in 1..(MaxDay + 1) |-> SubSeq(isoformat(replace(d, x)), 1, 10)]

\* get_hashes: [day.replace(day=(x + 1)).isoformat()[:10] for x in range(day.day)]
get_hashes(day) ==
    LET d == IF day = None THEN today ELSE day
    IN [i \in 1..d.day |-> SubSeq(isoformat(replace(d, (i - 1) + 1)), 1, 10)]

\* KeyValueStore.remember(hash, range, value): an insert; the table after it.
remember(hash, range, value) == Append(table, [hash |-> hash, range |-> range, value |-> value])

\* KeyValueStore.enumerate(hash): the records stored under the hash, in range order.
enumerate(hash) == SelectSeq(table, LAMBDA r : r.hash = hash)

\* get_records: chain(*[store.enumerate(hash) for hash in get_hashes(day)])
RECURSIVE chain(_)
chain(lists) == IF lists = <<>> THEN <<>> ELSE Head(lists) \o chain(Tail(lists))
get_records(day) ==
    LET hashes == get_hashes(day)
    IN chain([i \in DOMAIN hashes |-> enumerate(hashes[i])])

\* The columns of a report, and DictWriter.writerow: the values of the row in
\* the order of the columns.
FieldNames == <<"Cost Center", "Transaction", "Stamp", "Account", "Identifier", "Duration">>
writerow(row) == [i \in DOMAIN FieldNames |-> row[FieldNames[i]]]

\* get_reporter: a buffer in which the header has been written.
get_reporter == <<FieldNames>>

NoReports == [labels |-> <<>>, buffers |-> <<>>]

\* The keys build_reports reads in the value of a record, and what it raises
\* when one is missing.
ReadKeys == {"cost-center", "account", "stamp", "transaction", "identifier", "duration"}
KeyError == [labels |-> <<>>, buffers |-> <<>>, raised |-> "KeyError"]
Raised(reports) == "raised" \in DOMAIN reports

\* Mutant: a record without the fields of a report is left out.
RECURSIVE build_reports_from_skipping(_, _)
build_reports_from_skipping(records, reports) ==
    IF records = <<>> THEN reports
    ELSE IF ~(ReadKeys \subseteq DOMAIN Head(records).value)
    THEN build_reports_from_skipping(Tail(records), reports)
    ELSE LET item == Head(records).value
             label == item["cost-center"]
             reporter == IF label \in DOMAIN reports.buffers THEN reports.buffers[label]
                                                             ELSE get_reporter
             row == ("Account" :> item["account"]) @@ ("Cost Center" :> item["cost-center"])
                    @@ ("Stamp" :> item["stamp"]) @@ ("Transaction" :> item["transaction"])
                    @@ ("Identifier" :> item["identifier"]) @@ ("Duration" :> item["duration"])
         IN build_reports_from_skipping(Tail(records),
                [labels |-> IF label \in DOMAIN reports.buffers THEN reports.labels
                                                                ELSE Append(reports.labels, label),
                 buffers |-> (label :> Append(reporter, writerow(row))) @@ reports.buffers])

build_reports_from_last_only(records, reports) ==
    IF records = <<>> THEN reports
    ELSE LET item == records[Len(records)].value
             row == ("Account" :> item["account"]) @@ ("Cost Center" :> item["cost-center"])
                    @@ ("Stamp" :> item["stamp"]) @@ ("Transaction" :> item["transaction"])
                    @@ ("Identifier" :> item["identifier"]) @@ ("Duration" :> item["duration"])
         IN [labels |-> <<item["cost-center"]>>,
             buffers |-> (item["cost-center"] :> Append(get_reporter, writerow(row)))]

\* build_reports: the loop over the records, from the reports built so far; a
\* dict of buffers and the order in which its keys were first assigned.
RECURSIVE build_reports_from(_, _)
build_reports_from(records, reports) ==
    IF records = <<>> THEN reports
    ELSE IF ~(ReadKeys \subseteq DOMAIN Head(records).value) THEN KeyError
    ELSE LET item == Head(records).value
             label == item["cost-center"]
             reporter == IF label \in DOMAIN reports.buffers THEN reports.buffers[label]
                                                             ELSE get_reporter
             row == ("Account" :> item["account"]) @@ ("Cost Center" :> item["cost-center"])
                    @@ ("Stamp" :> item["stamp"]) @@ ("Transaction" :> item["transaction"])
                    @@ ("Identifier" :> item["identifier"]) @@ ("Duration" :> item["duration"])
         IN build_reports_from(Tail(records),
                [labels |-> IF label \in DOMAIN reports.buffers THEN reports.labels
                                                                ELSE Append(reports.labels, label),
                 buffers |-> (label :> Append(reporter, writerow(row))) @@ reports.buffers])

build_reports(records) == build_reports_from(records, NoReports)

\* Mutant: the key tells the month before the run.
get_report_key_of_month_before(label) ==
    <<"prefix", "/", label, "/">> \o Zfill(minus_one_day(replace(today, 1)).year, 4) \o <<"-">>
    \o Zfill(minus_one_day(replace(today, 1)).month, 2) \o <<"-", label, "-activities.csv">>

\* get_report_key: '/'.join([prefix, label, f"{year:04d}-{month:02d}-{label}-activities.csv"])
get_report_key(label) ==
    <<"prefix", "/", label, "/">> \o Zfill(today.year, 4) \o <<"-">> \o Zfill(today.month, 2)
    \o <<"-", label, "-activities.csv">>

store_report_appending(store, label, report) ==
    (get_report_key(label) :>
        (IF get_report_key(label) \in DOMAIN store THEN store[get_report_key(label)] ELSE <<>>)
        \o report) @@ store

\* store_report: s3.put_object(Bucket, Key=get_report_key(label), Body=report);
\* the bucket after it.
store_report(store, label, report) == (get_report_key(label) :> report) @@ store

\* 'for label, reporter in reports.items(): store_report(...)', from the i-th label on.
RECURSIVE store_reports_from(_, _, _)
store_reports_from(store, reports, i) ==
    IF i > Len(reports.labels) THEN store
    ELSE store_reports_from(store_report(store, reports.labels[i],
                                         reports.buffers[reports.labels[i]]),
                            reports, i + 1)

\* No reporting handler has run.
NoRun == [handler |-> "none", day |-> Date(0, 0, 0), hashes |-> <<>>, records |-> <<>>,
          reports |-> NoReports, before |-> <<>>, earlier |-> <<>>, nth |-> 0,
          raised |-> "none"]

\* The reporting as the other parts of the system leave it.
ReportsAtRest ==
    /\ today = Dates[1]
    /\ table = <<>>
    /\ bucket = <<>>
    /\ reporting = NoRun

\* ----------------------------------------------------------------- tools
\* Worker, the alert relay and the attachment proxy before any invocation.
NoWork == [operation |-> "none", pc |-> "idle", role |-> "none", retries |-> 0,
           attempts |-> 0, slept |-> 0, created |-> FALSE, raised |-> "none",
           calls |-> <<>>, nth |-> 0]
NoBatch == [pc |-> "idle", todo |-> <<>>, handled |-> <<>>, published |-> <<>>,
            raised |-> "none", returned |-> "none", nth |-> 0]
NoRequest == [path |-> <<>>, headers |-> <<>>, stored |-> "none", statusCode |-> 0,
              raised |-> "none", reads |-> <<>>, nth |-> 0]

ToolsAtRest ==
    /\ worker = NoWork
    /\ alert = NoBatch
    /\ download = NoRequest

\* ------------------------------------------------------------------ init
\* The metering engine before any event.
MeterInit ==
    /\ datastore = <<>>
    /\ now = 0
    /\ nextId = 1
    /\ emitted = <<>>
    /\ pc = [p \in Invocations |-> "idle"]
    /\ input = [p \in Invocations |-> NoInput]
    /\ transaction = [p \in Invocations |-> None]
    /\ result = [p \in Invocations |-> "none"]
    /\ out = [p \in Invocations |-> <<>>]
    /\ openAt = [p \in Invocations |-> NoOpen]
    /\ prev = NoPrev
    /\ delivered = 0
    /\ started = <<>>
    /\ raced = {}
    /\ lost = {}

Init == MeterInit /\ AccountsAtRest /\ ReportsAtRest /\ ToolsAtRest

\* ------------------------------------------------------------ invocation
\* The event source invokes handle_account_event with one event.
Deliver(p, label, account) ==
    /\ pc[p] = "idle"
    /\ delivered < MaxDeliveries
    /\ delivered' = delivered + 1
    /\ pc' = [pc EXCEPT ![p] = "handle"]
    /\ input' = [input EXCEPT ![p] = [label |-> label, account |-> account]]
    /\ transaction' = [transaction EXCEPT ![p] = None]
    /\ result' = [result EXCEPT ![p] = "none"]
    /\ out' = [out EXCEPT ![p] = <<>>]
    /\ openAt' = [openAt EXCEPT ![p] =
                    [k \in Kinds |-> IF retrieve(Key(k, account)) # None
                                     THEN datastore[Key(k, account)]
                                     ELSE NoRecord]]
    /\ UNCHANGED <<accountVars, reportVars, toolVars, lost, datastore, now, nextId, emitted, prev, started, raced>>

\* Mutant: a label the handler does not know starts an onboarding.
handle_account_event_default_created(p) ==
    /\ pc[p] = "handle"
    /\ pc' = [pc EXCEPT ![p] =
                CASE input[p].label = "ExpiredAccount" -> "expired"
                  [] input[p].label = "ReleasedAccount" -> "maintenance_retrieve"
                  [] OTHER -> "created"]
    /\ UNCHANGED <<accountVars, reportVars, toolVars, lost, datastore, now, nextId, emitted, input, transaction, result,
                   out, openAt, prev, delivered, started, raced>>

\* handle_account_event: decode the event and branch on its label.
handle_account_event(p) ==
    /\ pc[p] = "handle"
    /\ pc' = [pc EXCEPT ![p] =
                CASE input[p].label = "CreatedAccount" -> "created"
                  [] input[p].label = "ExpiredAccount" -> "expired"
                  [] input[p].label = "ReleasedAccount" -> "maintenance_retrieve"
                  [] OTHER -> "return"]
    /\ UNCHANGED <<accountVars, reportVars, toolVars, lost, datastore, now, nextId, emitted, input, transaction, result,
                   out, openAt, prev, delivered, started, raced>>

\* Mutant: a starting event leaves an open transaction as it is.
StartTransactionIfAbsent(p, kind, at) ==
    /\ pc[p] = at
    /\ LET key == Key(kind, input[p].account)
           fresh == [begin |-> now, identifier |-> nextId]
       IN /\ datastore' = IF retrieve(key) # None THEN datastore ELSE assign(key, fresh)
          /\ started' = Append(started, [key |-> key, begin |-> now])
    /\ nextId' = nextId + 1
    /\ pc' = [pc EXCEPT ![p] = "return"]
    /\ UNCHANGED <<accountVars, reportVars, toolVars, lost, now, emitted, input, transaction, result, out, openAt, prev, delivered, raced>>

\* transaction = {'begin': time(), 'identifier': str(uuid4())}; datastore.assign(key, transaction)
StartTransaction(p, kind, at) ==
    /\ pc[p] = at
    /\ LET key == Key(kind, input[p].account)
           fresh == [begin |-> now, identifier |-> nextId]
       IN /\ datastore' = assign(key, fresh)
          /\ started' = Append(started, [key |-> key, begin |-> now])
    /\ nextId' = nextId + 1
    /\ pc' = [pc EXCEPT ![p] = "return"]
    /\ UNCHANGED <<accountVars, reportVars, toolVars, lost, now, emitted, input, transaction, result, out, openAt, prev, delivered, raced>>

\* Mutant: CreatedAccount opens the Maintenance kind.
handle_created_event_as_maintenance(p) == StartTransaction(p, "Maintenance", "created")

handle_created_event(p) == StartTransaction(p, "OnBoarding", "created")

\* Mutant: ExpiredAccount opens the OnBoarding kind.
handle_expired_event_as_onboarding(p) == StartTransaction(p, "OnBoarding", "expired")

handle_expired_event(p) == StartTransaction(p, "Maintenance", "expired")

\* Invocation q has retrieved transaction t and has not deleted it yet.
HoldsUndeleted(q, t) ==
    /\ pc[q] \in {"maintenance_delete", "onboarding_delete"}
    /\ transaction[q] = t

\* Mutant: an absent record is an error instead of nothing to do.
RetrieveTransactionOrFail(p, kind, at, found, absent) ==
    /\ pc[p] = at
    /\ LET t == retrieve(Key(kind, input[p].account))
       IN /\ transaction' = [transaction EXCEPT ![p] = t]
          /\ pc' = [pc EXCEPT ![p] = IF t # None THEN found ELSE "idle"]
          /\ result' = [result EXCEPT ![p] = IF t # None THEN @ ELSE "error"]
    /\ UNCHANGED <<accountVars, reportVars, toolVars, lost, datastore, now, nextId, emitted, input, out, openAt,
                   prev, delivered, started, raced>>

\* transaction = datastore.retrieve(key); if transaction: ...
RetrieveTransactionPastExpiry(p, kind, at, found, absent) ==
    /\ pc[p] = at
    /\ LET key == Key(kind, input[p].account)
           t == IF key \in DOMAIN datastore THEN datastore[key].value ELSE None
       IN /\ transaction' = [transaction EXCEPT ![p] = t]
          /\ pc' = [pc EXCEPT ![p] = IF t # None THEN found ELSE absent]
    /\ UNCHANGED <<accountVars, reportVars, toolVars, lost, datastore, now, nextId, emitted, input, result, out, openAt,
                   prev, delivered, started, raced>>

RetrieveTransaction(p, kind, at, found, absent) ==
    /\ pc[p] = at
    /\ LET t == retrieve(Key(kind, input[p].account))
       IN /\ transaction' = [transaction EXCEPT ![p] = t]
          /\ pc' = [pc EXCEPT ![p] = IF t # None THEN found ELSE absent]
          /\ raced' = IF t # None /\ (\E q \in Invocations \ {p} : HoldsUndeleted(q, t))
                      THEN raced \cup {t.identifier}
                      ELSE raced
    /\ UNCHANGED <<accountVars, reportVars, toolVars, lost, datastore, now, nextId, emitted, input, result, out, openAt,
                   prev, delivered, started>>

\* Mutant: the record is not deleted.
DeleteTransactionSkipped(p, kind, at, next) ==
    /\ pc[p] = at
    /\ pc' = [pc EXCEPT ![p] = next]
    /\ UNCHANGED <<accountVars, reportVars, toolVars, lost, datastore, now, nextId, emitted, input, transaction, result, out, openAt,
                   prev, delivered, started, raced>>

\* Mutant: the record is deleted only if it is still the one that was retrieved.
DeleteTransactionIfSame(p, kind, at, next) ==
    /\ pc[p] = at
    /\ LET key == Key(kind, input[p].account)
       IN datastore' = IF key \in DOMAIN datastore
                          /\ datastore[key].value.identifier # transaction[p].identifier
                       THEN datastore
                       ELSE assign(key, None)
    /\ pc' = [pc EXCEPT ![p] = next]
    /\ UNCHANGED <<accountVars, reportVars, toolVars, lost, now, nextId, emitted, input, transaction, result, out, openAt,
                   prev, delivered, started, raced>>

\* datastore.assign(key, None)
DeleteTransaction(p, kind, at, next) ==
    /\ pc[p] = at
    /\ datastore' = assign(Key(kind, input[p].account), None)
    /\ lost' = LET key == Key(kind, input[p].account)
               IN IF key \in DOMAIN datastore
                     /\ datastore[key].value.identifier # transaction[p].identifier
                  THEN lost \cup {[identifier |-> datastore[key].value.identifier,
                                   by |-> "delete",
                                   holder |-> transaction[p].identifier]}
                  ELSE lost
    /\ pc' = [pc EXCEPT ![p] = next]
    /\ UNCHANGED <<accountVars, reportVars, toolVars, now, nextId, emitted, input, transaction, result, out, openAt,
                   prev, delivered, started, raced>>

\* Mutant: the duration is the end timestamp.
ClosedWithoutBegin(t) ==
    ("end" :> now) @@ ("duration" :> now) @@ t

\* transaction['end'] = time(); transaction['duration'] = end - begin
Closed(t) ==
    ("end" :> now) @@ ("duration" :> (now - t.begin)) @@ t

\* ...; Events.emit_spa_event(label, payload=transaction)
EmitCompletion(p, label, at, next) ==
    /\ pc[p] = at
    /\ LET closed == Closed(transaction[p])
       IN /\ transaction' = [transaction EXCEPT ![p] = closed]
          /\ emitted' = emit_spa_event(label, closed)
          /\ out' = [out EXCEPT ![p] = Append(@, [label |-> label, payload |-> closed])]
    /\ pc' = [pc EXCEPT ![p] = next]
    /\ UNCHANGED <<accountVars, reportVars, toolVars, lost, datastore, now, nextId, input, result, openAt, prev, delivered, started, raced>>

\* Mutant: the maintenance transaction is emitted without being deleted.
update_maintenance_transaction_retrieve_then_emit(p) ==
    RetrieveTransaction(p, "Maintenance", "maintenance_retrieve",
                        "maintenance_emit", "onboarding_retrieve")

\* update_maintenance_transaction
update_maintenance_transaction_retrieve(p) ==
    RetrieveTransaction(p, "Maintenance", "maintenance_retrieve",
                        "maintenance_delete", "onboarding_retrieve")

update_maintenance_transaction_delete(p) ==
    DeleteTransaction(p, "Maintenance", "maintenance_delete", "maintenance_emit")

\* Mutant: the handler returns once the maintenance transaction is closed.
update_maintenance_transaction_emit_then_return(p) ==
    EmitCompletion(p, "SuccessfulMaintenanceEvent", "maintenance_emit", "return")

update_maintenance_transaction_emit(p) ==
    EmitCompletion(p, "SuccessfulMaintenanceEvent", "maintenance_emit",
                   "onboarding_retrieve")

\* Mutant: the onboarding transaction is emitted before it is deleted.
update_onboarding_transaction_retrieve_then_emit(p) ==
    RetrieveTransaction(p, "OnBoarding", "onboarding_retrieve",
                        "onboarding_emit", "return")

\* update_onboarding_transaction
update_onboarding_transaction_retrieve(p) ==
    RetrieveTransaction(p, "OnBoarding", "onboarding_retrieve",
                        "onboarding_delete", "return")

update_onboarding_transaction_delete(p) ==
    DeleteTransaction(p, "OnBoarding", "onboarding_delete", "onboarding_emit")

\* Mutant: the onboarding close reports the maintenance label.
update_onboarding_transaction_emit_as_maintenance(p) ==
    EmitCompletion(p, "SuccessfulMaintenanceEvent", "onboarding_emit", "return")

update_onboarding_transaction_emit(p) ==
    EmitCompletion(p, "SuccessfulOnBoardingEvent", "onboarding_emit", "return")

\* return f"[OK] {input.label} {input.account}"
Return(p) ==
    /\ pc[p] = "return"
    /\ pc' = [pc EXCEPT ![p] = "idle"]
    /\ result' = [result EXCEPT ![p] = "OK"]
    /\ prev' = [label |-> input[p].label, account |-> input[p].account,
                 out |-> out[p], openAt |-> openAt[p], returnedAt |-> now]
    /\ input' = [input EXCEPT ![p] = NoInput]
    /\ transaction' = [transaction EXCEPT ![p] = None]
    /\ out' = [out EXCEPT ![p] = <<>>]
    /\ openAt' = [openAt EXCEPT ![p] = NoOpen]
    /\ UNCHANGED <<accountVars, reportVars, toolVars, lost, datastore, now, nextId, emitted, delivered, started, raced>>

\* Events.emit_spa_event raises: the exception leaves the handler, the invocation
\* ends without an event and without the statements that would have followed.
EmitFails(p) ==
    /\ pc[p] \in {"maintenance_emit", "onboarding_emit"}
    /\ pc' = [pc EXCEPT ![p] = "idle"]
    /\ result' = [result EXCEPT ![p] = "error"]
    /\ lost' = lost \cup {[identifier |-> transaction[p].identifier, by |-> "emit",
                            holder |-> transaction[p].identifier]}
    /\ prev' = [label |-> input[p].label, account |-> input[p].account,
                 out |-> out[p], openAt |-> openAt[p], returnedAt |-> now]
    /\ input' = [input EXCEPT ![p] = NoInput]
    /\ transaction' = [transaction EXCEPT ![p] = None]
    /\ out' = [out EXCEPT ![p] = <<>>]
    /\ openAt' = [openAt EXCEPT ![p] = NoOpen]
    /\ UNCHANGED <<accountVars, reportVars, toolVars, datastore, now, nextId, emitted, delivered, started, raced>>

\* Any statement of the handler.
HandlerStep(p) ==
    \/ handle_account_event(p)
    \/ handle_created_event(p)
    \/ handle_expired_event(p)
    \/ update_maintenance_transaction_retrieve(p)
    \/ update_maintenance_transaction_delete(p)
    \/ update_maintenance_transaction_emit(p)
    \/ update_onboarding_transaction_retrieve(p)
    \/ update_onboarding_transaction_delete(p)
    \/ update_onboarding_transaction_emit(p)
    \/ Return(p)

\* ----------------------------------------------------------- environment
\* The clock advances.
Tick ==
    /\ now < MaxTime
    /\ now' = now + 1
    /\ UNCHANGED <<accountVars, reportVars, toolVars, lost, datastore, nextId, emitted, pc, input, transaction, result,
                   out, openAt, prev, delivered, started, raced>>

\* The store reaps a record whose expiration has passed (lazily, at any time).
Reap ==
    \E key \in DOMAIN datastore :
        /\ datastore[key].expiration <= now
        /\ datastore' = [k \in DOMAIN datastore \ {key} |-> datastore[k]]
        /\ UNCHANGED <<accountVars, reportVars, toolVars, lost, now, nextId, emitted, pc, input, transaction, result,
                       out, openAt, prev, delivered, started, raced>>

\* -------------------------------------------------------- specifications
DeliverAny(p) == \E label \in Labels, account \in Accounts : Deliver(p, label, account)

\* The racing invocations of SpecConc handle the recognised events of one account.
DeliverConc(p) == \E label \in Recognised : Deliver(p, label, "a1")

\* One invocation at a time: each event is handled to completion before the next.
Next ==
    \/ \E p \in SeqInvocations : DeliverAny(p)
    \/ \E p \in SeqInvocations : HandlerStep(p)
    \/ Tick
    \/ Reap

Spec == Init /\ [][Next]_vars

\* Two invocations whose statements interleave freely.  Reaping is left to Spec:
\* retrieve answers the same for an expired record whether or not it was reaped.
NextConc ==
    \/ \E p \in Invocations : delivered < MaxConcDeliveries /\ DeliverConc(p)
    \/ \E p \in Invocations : HandlerStep(p)
    \/ Tick

SpecConc == Init /\ [][NextConc]_vars

\* The engine after one CreatedAccount event of "a1" was handled at time 0: its
\* onboarding transaction is open.
MeterOnboarding ==
    /\ datastore = (Key("OnBoarding", "a1") :>
                       [value |-> [begin |-> 0, identifier |-> 1],
                        expiration |-> TtlSeconds])
    /\ now = 0
    /\ nextId = 2
    /\ emitted = <<>>
    /\ pc = [p \in Invocations |-> "idle"]
    /\ input = [p \in Invocations |-> NoInput]
    /\ transaction = [p \in Invocations |-> None]
    /\ result = [p \in Invocations |-> IF p = 1 THEN "OK" ELSE "none"]
    /\ out = [p \in Invocations |-> <<>>]
    /\ openAt = [p \in Invocations |-> NoOpen]
    /\ prev = [label |-> "CreatedAccount", account |-> "a1", out |-> <<>>,
               openAt |-> NoOpen, returnedAt |-> 0]
    /\ delivered = 0
    /\ started = <<[key |-> Key("OnBoarding", "a1"), begin |-> 0]>>
    /\ raced = {}
    /\ lost = {}

RaceInit == MeterOnboarding /\ AccountsAtRest /\ ReportsAtRest /\ ToolsAtRest

\* The events of an onboarding episode of "a1".
DeliverRace(p) ==
    \E label \in {"CreatedAccount", "ReleasedAccount"} : Deliver(p, label, "a1")

\* Two interleaved invocations that go on from an open onboarding transaction.
NextRace ==
    \/ \E p \in Invocations : DeliverRace(p)
    \/ \E p \in Invocations : HandlerStep(p)
    \/ Tick

SpecRace == RaceInit /\ [][NextRace]_vars

\* One invocation at a time, and the emission of an event may fail.
NextFail ==
    \/ \E p \in SeqInvocations : DeliverAny(p)
    \/ \E p \in SeqInvocations : HandlerStep(p)
    \/ \E p \in SeqInvocations : EmitFails(p)
    \/ Tick
    \/ Reap

SpecFail == Init /\ [][NextFail]_vars


\* ------------------------------------------------- the methods of Account
\* At most this many calls of a method of Account in one behaviour.
MaxCalls == 2

\* The accounts a caller names, and a tag value that is missing.
Callers == {"id1", "id2"}
Absent == "(absent)"
StateTags == StateValues \cup {"*alien*"}

\* The tag mapping of an account with this owner and this state, either of
\* which may be Absent, next to a tag the system does not know.
Tagged(owner, state) ==
    [k \in ({"another_tag"} \cup (IF owner = Absent THEN {} ELSE {"account:owner"})
                            \cup (IF state = Absent THEN {} ELSE {"account:state"})) |->
        CASE k = "account:owner" -> owner
          [] k = "account:state" -> state
          [] OTHER -> "another_value"]

\* One call of Account.move.
CallMove(account, state) ==
    /\ lastCall.nth < MaxCalls
    /\ LET outcome == move(account, state)
       IN /\ tags' = outcome.tags
          /\ calls' = outcome.calls
          /\ lastCall' = [method |-> "move", account |-> account, argument |-> state,
                          raised |-> outcome.raised, returned |-> PyNone, before |-> tags,
                          requests |-> Len(calls), nth |-> lastCall.nth + 1]
    /\ UNCHANGED <<meterVars, reportVars, toolVars, status, environ, scan>>

\* One call of Account.validate_tags: it reads the pages of tags and checks them.
CallValidateTags(account) ==
    /\ lastCall.nth < MaxCalls
    /\ calls' = calls \o tag_requests_from(account, 0)
    /\ lastCall' = [method |-> "validate_tags", account |-> account, argument |-> PyNone,
                    raised |-> validate_tags(account), returned |-> PyNone, before |-> tags,
                    requests |-> Len(calls), nth |-> lastCall.nth + 1]
    /\ UNCHANGED <<meterVars, reportVars, toolVars, tags, status, environ, scan>>

\* Any tags on the first account, any value of DRY_RUN; the metering engine at rest.
AccountInit ==
    /\ MeterInit
    /\ ToolsAtRest
    /\ ReportsAtRest
    /\ \E owner \in Owners \cup {Absent}, state \in StateTags \cup {Absent} :
          tags = [a \in Ids |-> CASE a = "id1" -> Tagged(owner, state)
                                  [] a = "id2" -> [k \in {"account:owner", "account:state"} |->
                                                      IF k = "account:owner" THEN "a@b.cc"
                                                                             ELSE "released"]
                                  [] OTHER -> <<>>]
    /\ status = [a \in Ids |-> "ACTIVE"]
    /\ environ \in DryRunValues
    /\ calls = <<>>
    /\ lastCall = NoCall(tags)
    /\ scan = NoScan

AccountNext ==
    \/ \E account \in Callers, state \in MoveArguments : CallMove(account, state)
    \/ \E account \in Callers : CallValidateTags(account)

SpecAccount == AccountInit /\ [][AccountNext]_vars

\* ------------------------------------------------- the Maintenance Scanner
\* At most this many invocations of the scanner in one behaviour.
MaxScans == 2

\* get_organizational_units(): the units under management, and
\* Account.list(parent=unit): the accounts of each, in listing order.
Units == <<"ou1", "ou2">>
Members ==
    [unit \in {"ou1", "ou2", "ou-parent"} |->
        CASE unit = "ou1" -> <<"id1", "id2">>
          [] unit = "ou2" -> <<"id3">>
          [] OTHER -> <<"id1", "id2", "id3">>]
get_organizational_units == Units

\* A page of the account listing holds at most this many accounts.
ListPageSize == 2

\* organizations.list_accounts_for_parent(ParentId, NextToken): one page; the
\* token is the position of the first account of the next page, 0 for none.
list_accounts_for_parent(parent, token) ==
    LET first == IF token = 0 THEN 1 ELSE token
        end == IF first + ListPageSize - 1 < Len(Members[parent])
               THEN first + ListPageSize - 1 ELSE Len(Members[parent])
    IN [Accounts |-> [i \in 1..(end - first + 1) |-> [Id |-> Members[parent][first + i - 1]]],
        NextToken |-> IF end < Len(Members[parent]) THEN end + 1 ELSE 0]

list_from_first_chunk(parent, token) ==
    LET chunk == list_accounts_for_parent(parent, token)
    IN [yielded |-> [i \in DOMAIN chunk.Accounts |-> chunk.Accounts[i].Id],
        requests |-> <<[api |-> "list_accounts_for_parent", ResourceId |-> parent,
                        Tags |-> <<>>, NextToken |-> token]>>]

\* The loop of Account.list from a token on: what it yields and what it requests.
RECURSIVE list_from(_, _)
list_from(parent, token) ==
    LET chunk == list_accounts_for_parent(parent, token)
        rest == IF chunk.NextToken # 0 THEN list_from(parent, chunk.NextToken)
                                       ELSE [yielded |-> <<>>, requests |-> <<>>]
    IN [yielded |-> [i \in DOMAIN chunk.Accounts |-> chunk.Accounts[i].Id] \o rest.yielded,
        requests |-> <<[api |-> "list_accounts_for_parent", ResourceId |-> parent,
                        Tags |-> <<>>, NextToken |-> token]>> \o rest.requests]

\* Account.list: 'token = None', then the loop.
list(parent) == list_from(parent, 0)

\* The accounts in the order the two loops of handle_event reach them.
RECURSIVE ListingFrom(_)
ListingFrom(i) ==
    IF i > Len(get_organizational_units) THEN <<>>
    ELSE list(get_organizational_units[i]).yielded \o ListingFrom(i + 1)
Listing == ListingFrom(1)

Range(seq) == {seq[i] : i \in DOMAIN seq}

\* What the provider may do to the request sent for one account.
Failures == {"none", "describe", "move"}

\* The requests Account.describe sends when it succeeds.
describe_requests(id) ==
    <<[api |-> "describe_account", ResourceId |-> id, Tags |-> <<>>, NextToken |-> 0]>>
    \o tag_requests_from(id, 0)

\* Mutant: the test of the state tag is removed, every active account goes on.
NotReleasedRemoved(item) == FALSE

\* 'if item.tags.get('account:state') != State.RELEASED: continue'
NotReleased(item) == Get(item.tags, "account:state") # RELEASED

\* handle_event starts: a new invocation lists the accounts from the first.
StartScan ==
    /\ scan.pc \in {"idle", "done", "failed"}
    /\ scan.runs < MaxScans
    /\ scan' = [pc |-> "running", todo |-> Listing, examined |-> <<>>, moved |-> <<>>,
                eligible |-> {a \in Range(Listing) :
                                 /\ status[a] = "ACTIVE"
                                 /\ Get(tags[a], "account:state") = PyStr("released")},
                runs |-> scan.runs + 1, previous |-> scan.pc, left |-> Range(scan.todo)]
    /\ UNCHANGED <<meterVars, reportVars, toolVars, tags, status, environ, calls, lastCall>>

\* One turn of the inner loop of handle_event, for the next account listed.
\* An exception of describe or of move leaves both loops and ends the invocation.
ScanAccount(failure) ==
    /\ scan.pc = "running"
    /\ scan.todo # <<>>
    /\ LET account == Head(scan.todo)
           item == describe(account)
           after == IF Len(scan.todo) = 1 THEN "done" ELSE "running"
           described == calls \o describe_requests(account)
       IN IF failure = "describe"
          THEN /\ scan' = [scan EXCEPT !.pc = "failed"]
               /\ UNCHANGED <<tags, calls>>
          ELSE IF ~item.is_active \/ NotReleased(item)
          THEN /\ scan' = [scan EXCEPT !.pc = after, !.todo = Tail(@),
                                       !.examined = Append(@, account)]
               /\ calls' = described
               /\ UNCHANGED tags
          ELSE IF failure = "move" /\ environ = "FALSE"
          THEN /\ scan' = [scan EXCEPT !.pc = "failed", !.examined = Append(@, account),
                                       !.moved = Append(@, [account |-> account,
                                                            state |-> EXPIRED])]
               /\ calls' = described
               /\ UNCHANGED tags
          ELSE LET outcome == move(account, EXPIRED)
               IN /\ scan' = [scan EXCEPT !.pc = after, !.todo = Tail(@),
                                          !.examined = Append(@, account),
                                          !.moved = Append(@, [account |-> account,
                                                               state |-> EXPIRED])]
                  /\ tags' = outcome.tags
                  /\ calls' = described \o SubSeq(outcome.calls, Len(calls) + 1,
                                                  Len(outcome.calls))
    /\ UNCHANGED <<meterVars, reportVars, toolVars, status, environ, lastCall>>

\* Three accounts, each active or not, each released, vanilla or without a
\* state tag; DRY_RUN "FALSE" or not defined; the metering engine at rest.
ScanInit ==
    /\ MeterInit
    /\ ToolsAtRest
    /\ ReportsAtRest
    /\ \E states \in [Ids -> {"released", "vanilla", Absent}] :
          tags = [a \in Ids |-> Tagged("a@b.cc", states[a])]
    /\ status \in [Ids -> {"ACTIVE", "SUSPENDED"}]
    /\ environ \in {"FALSE", Unset}
    /\ calls = <<>>
    /\ lastCall = NoCall(tags)
    /\ scan = NoScan

ScanNext ==
    \/ StartScan
    \/ \E failure \in Failures : ScanAccount(failure)

SpecScan == ScanInit /\ [][ScanNext]_vars

\* ------------------------------------------------------------ the listings
\* The resources whose tags are listed, and the parents whose accounts are.
Listed == Callers \cup DOMAIN Repeating
Parents == DOMAIN Members

\* One call of Account.iterate_tags, run to its end.
CallIterateTags(account) ==
    /\ lastCall.nth < MaxCalls
    /\ calls' = calls \o tag_requests_from(account, 0)
    /\ lastCall' = [method |-> "iterate_tags", account |-> account, argument |-> PyNone,
                    raised |-> "none", returned |-> iterate_tags(account), before |-> tags,
                    requests |-> Len(calls), nth |-> lastCall.nth + 1]
    /\ UNCHANGED <<meterVars, reportVars, toolVars, tags, status, environ, scan>>

\* One call of Account.list_tags: the mapping, and its keys in the dict's order.
CallListTags(account) ==
    /\ lastCall.nth < MaxCalls
    /\ calls' = calls \o tag_requests_from(account, 0)
    /\ lastCall' = [method |-> "list_tags", account |-> account, argument |-> PyNone,
                    raised |-> "none",
                    returned |-> [mapping |-> list_tags(account),
                                  keys |-> list_tags_keys(account)],
                    before |-> tags, requests |-> Len(calls), nth |-> lastCall.nth + 1]
    /\ UNCHANGED <<meterVars, reportVars, toolVars, tags, status, environ, scan>>

\* One call of Account.list, run to its end.
CallList(parent) ==
    /\ lastCall.nth < MaxCalls
    /\ calls' = calls \o list(parent).requests
    /\ lastCall' = [method |-> "list", account |-> parent, argument |-> PyNone,
                    raised |-> "none", returned |-> list(parent).yielded, before |-> tags,
                    requests |-> Len(calls), nth |-> lastCall.nth + 1]
    /\ UNCHANGED <<meterVars, reportVars, toolVars, tags, status, environ, scan>>

ListingNext ==
    \/ \E account \in Listed : CallIterateTags(account)
    \/ \E account \in Listed : CallListTags(account)
    \/ \E parent \in Parents : CallList(parent)

SpecListing == AccountInit /\ [][ListingNext]_vars

\* ---------------------------------------------------- the activity reports
CostCenters == {"cc1", "cc2", "cc3"}

\* The days of February on which records were stamped.
RecordDays == {1, MaxDay}

\* The record handle_record stores for the i-th event of a behaviour, stamped
\* on a day of February: hash = stamp[:10], range = stamp[11:].
Record(i, day, label) ==
    [hash |-> SubSeq(isoformat(Date(2024, 2, day)), 1, 10),
     range |-> Digit(i),
     value |-> ("account" :> (IF i % 2 = 1 THEN "a1" ELSE "a2")) @@ ("cost-center" :> label)
               @@ ("stamp" :> Digit(i)) @@ ("identifier" :> Digit(i))
               @@ ("transaction" :> (IF i % 2 = 1 THEN "on-boarding" ELSE "maintenance"))
               @@ ("duration" :> Digit(i))]

\* handle_daily_reporting, invoked by the scheduler without a day.
handle_daily_reporting ==
    /\ reporting.nth < MaxRuns
    /\ LET reports == build_reports(get_records(None))
       IN /\ bucket' = IF Raised(reports) THEN bucket
                                          ELSE store_reports_from(bucket, reports, 1)
          /\ reporting' = [handler |-> "daily", day |-> today, hashes |-> get_hashes(None),
                           records |-> get_records(None), reports |-> reports,
                           before |-> bucket,
                           earlier |-> IF reporting.nth = 0 THEN <<>>
                                       ELSE <<[day |-> reporting.day,
                                               reports |-> reporting.reports,
                                               after |-> bucket]>>,
                           nth |-> reporting.nth + 1,
                           raised |-> IF Raised(reports) THEN "KeyError" ELSE "none"]
    /\ UNCHANGED <<meterVars, accountVars, toolVars, today, table>>

\* Midnight.
NextDay ==
    \E i \in 1..(Len(Dates) - 1) :
        /\ today = Dates[i]
        /\ today' = Dates[i + 1]
        /\ UNCHANGED <<meterVars, accountVars, toolVars, table, bucket, reporting>>

\* Any day, and any table of records stamped in February in stamp order.
ReportInit ==
    /\ MeterInit
    /\ ToolsAtRest
    /\ AccountsAtRest
    /\ today \in Range(Dates)
    /\ \E n \in 0..MaxRecords :
          \E days \in [1..n -> RecordDays], labels \in [1..n -> CostCenters] :
              /\ \A i \in 1..(n - 1) : days[i] <= days[i + 1]
              /\ table = [i \in 1..n |-> Record(i, days[i], labels[i])]
    /\ bucket = <<>>
    /\ reporting = NoRun

ReportNext ==
    \/ handle_daily_reporting
    \/ NextDay

SpecReport == ReportInit /\ [][ReportNext]_vars

\* ----------------------------------------------------- the metering records
\* The nights that pass in one behaviour, and the seconds of a day at which
\* an event is handled.
MaxNights == 2
Seconds == 1..3

\* The days the behaviours start on: the last day of a month of 28, 29, 30 and
\* 31 days, the last one of a year.
StartDates == {Date(2023, 2, 28), Date(2024, 2, 29), Date(2024, 4, 30), Date(2023, 12, 31)}

\* The payloads of the events recorded: a transaction with the fields of a
\* report, and one as the metering engine closes it.
Payloads ==
    {("account" :> "a1") @@ ("cost-center" :> "cc1") @@ ("transaction" :> "on-boarding")
        @@ ("identifier" :> "i1") @@ ("duration" :> "7"),
     ("begin" :> "0") @@ ("end" :> "7") @@ ("duration" :> "7") @@ ("identifier" :> "i1")}

\* An event was stamped today at the second t.
StampedToday(t) ==
    \E i \in DOMAIN table :
        /\ table[i].hash = SubSeq(isoformat(today), 1, 10)
        /\ table[i].range = SubSeq(utcnow_isoformat(t), 12, 19)

\* Mutant: the hash is the first day of the month of the stamp.
handle_record_by_month(payload, t) ==
    /\ Len(table) < MaxRecords
    /\ \A later \in Seconds : later >= t => ~StampedToday(later)
    /\ LET stamp == utcnow_isoformat(t)
           stamped == ("stamp" :> stamp) @@ payload
       IN table' = remember(SubSeq(stamp, 1, 8) \o <<"0", "1">>, SubSeq(stamp, 12, Len(stamp)),
                            stamped)
    /\ UNCHANGED <<meterVars, accountVars, toolVars, today, bucket, reporting>>

\* handle_record: payload['stamp'] = stamp; records.remember(hash=stamp[:10],
\* range=stamp[11:], value=payload).  The clock is past the stamps given today.
handle_record(payload, t) ==
    /\ Len(table) < MaxRecords
    /\ \A later \in Seconds : later >= t => ~StampedToday(later)
    /\ LET stamp == utcnow_isoformat(t)
           stamped == ("stamp" :> stamp) @@ payload
       IN table' = remember(SubSeq(stamp, 1, 10), SubSeq(stamp, 12, Len(stamp)), stamped)
    /\ UNCHANGED <<meterVars, accountVars, toolVars, today, bucket, reporting>>

\* handle_monthly_reporting, invoked by the scheduler without a day.
handle_monthly_reporting ==
    /\ reporting.nth < MaxRuns
    /\ LET day == last_day_of_previous_month(today)
           reports == build_reports(get_records(day))
       IN /\ bucket' = IF Raised(reports) THEN bucket
                                          ELSE store_reports_from(bucket, reports, 1)
          /\ reporting' = [handler |-> "monthly", day |-> today, hashes |-> get_hashes(day),
                           records |-> get_records(day), reports |-> reports,
                           before |-> bucket,
                           earlier |-> IF reporting.nth = 0 THEN <<>>
                                       ELSE <<[day |-> reporting.day,
                                               reports |-> reporting.reports,
                                               after |-> bucket]>>,
                           nth |-> reporting.nth + 1,
                           raised |-> IF Raised(reports) THEN "KeyError" ELSE "none"]
    /\ UNCHANGED <<meterVars, accountVars, toolVars, today, table>>

\* Midnight, on the calendar.
Midnight ==
    /\ today \in StartDates \/ today.day < MaxNights
    /\ today' = plus_one_day(today)
    /\ UNCHANGED <<meterVars, accountVars, toolVars, table, bucket, reporting>>

\* An empty table and an empty bucket on the last day of a month.
RecordsInit ==
    /\ MeterInit
    /\ ToolsAtRest
    /\ AccountsAtRest
    /\ today \in StartDates
    /\ table = <<>>
    /\ bucket = <<>>
    /\ reporting = NoRun

RecordsNext ==
    \/ \E payload \in Payloads, t \in Seconds : handle_record(payload, t)
    \/ Midnight

\* The events are recorded as the days pass; no report is run.
SpecRecords == RecordsInit /\ [][RecordsNext]_vars

\* The record handle_record has stored for an event handled on the day at the second.
Remembered(d, t, payload) ==
    LET stamp == datetime_isoformat(d, t)
    IN [hash |-> SubSeq(stamp, 1, 10), range |-> SubSeq(stamp, 12, Len(stamp)),
        value |-> ("stamp" :> stamp) @@ payload]

\* One of the first days of a month, and a table of events recorded on the last
\* day of the month before and on the first day of the month.
MonthlyInit ==
    /\ MeterInit
    /\ ToolsAtRest
    /\ AccountsAtRest
    /\ \E start \in StartDates, nights \in 1..MaxNights :
          today = replace(plus_one_day(start), nights)
    /\ \E n \in 0..MaxRecords :
          \E days \in [1..n -> {0, 1}], payloads \in [1..n -> Payloads] :
              /\ \A i \in 1..(n - 1) : days[i] <= days[i + 1]
              /\ table = [i \in 1..n |->
                            Remembered(IF days[i] = 0 THEN last_day_of_previous_month(today)
                                                      ELSE replace(today, 1),
                                       i, payloads[i])]
    /\ bucket = <<>>
    /\ reporting = NoRun

MonthlyNext ==
    \/ handle_daily_reporting
    \/ handle_monthly_reporting

\* The scheduler runs the daily and the monthly report over a table of records.
SpecMonthly == MonthlyInit /\ [][MonthlyNext]_vars

\* ------------------------------------------------------------ the worker
\* Worker.prepare and Worker.purge: deploy the role, deploy the Codebuild
\* project, start a build.  Each request to IAM or Codebuild is one step, and its
\* answer is the service's.
MaxWorks == 2         \* invocations of prepare or purge in one behaviour

\* while retries < 5
MaxRetries == 5

ProjectName(operation) ==
    IF operation = "prepare" THEN "SpaProjectForAccountPreparation"
                             ELSE "SpaProjectForAccountPurge"

RoleArn == "arn:aws:iam::role/SpaRoleForCodebuild"

\* What IAM answers to deploy_role_for_codebuild: create_role (created, exists
\* already, refused), then attach_role_policy (refused), then the waiter.
RoleAnswers == {"created", "EntityAlreadyExists", "create_role:ClientError",
                "attach_role_policy:ClientError", "WaiterError"}

\* What Codebuild answers to create_project, and to the delete_project that
\* follows ResourceAlreadyExistsException.
ProjectAnswers == {"created", "ResourceAlreadyExistsException", "InvalidInputException",
                   "ClientError", "delete_project:ClientError"}

Request(method, argument) == [method |-> method, argument |-> argument]

\* prepare / purge up to the evaluation of the arguments of deploy_project:
\* forward_codebuild_events_to_central_bus returns, or raises what
\* deploy_role_for_events and deploy_events_rule let through.
Work(operation, forwarded) ==
    /\ worker.pc \in {"idle", "done", "raised"}
    /\ worker.nth < MaxWorks
    /\ worker' = [NoWork EXCEPT !.operation = operation,
                                !.nth = worker.nth + 1,
                                !.pc = IF forwarded THEN "role" ELSE "raised",
                                !.raised = IF forwarded THEN "none" ELSE "ClientError"]
    /\ UNCHANGED <<meterVars, accountVars, reportVars, alert, download>>

prepare == \E forwarded \in BOOLEAN : Work("prepare", forwarded)

purge == \E forwarded \in BOOLEAN : Work("purge", forwarded)

\* deploy_role_for_codebuild: the ARN of the role, or None after an error of
\* create_role other than EntityAlreadyExists or an error of attach_role_policy.
deploy_role_for_codebuild ==
    /\ worker.pc = "role"
    /\ \E answer \in RoleAnswers :
          LET create == Request("create_role", "SpaRoleForCodebuild")
              attach == Request("attach_role_policy", "AdministratorAccess")
              wait == Request("role_exists", "SpaRoleForCodebuild")
              get == Request("get_role", "SpaRoleForCodebuild")
          IN worker' =
                CASE answer = "create_role:ClientError" ->
                        [worker EXCEPT !.role = "None", !.pc = "deploy",
                                       !.calls = @ \o <<create>>]
                  [] answer = "attach_role_policy:ClientError" ->
                        [worker EXCEPT !.role = "None", !.pc = "deploy",
                                       !.calls = @ \o <<create, attach>>]
                  [] answer = "WaiterError" ->
                        [worker EXCEPT !.pc = "raised", !.raised = "WaiterError",
                                       !.calls = @ \o <<create, attach, wait>>]
                  [] OTHER ->
                        [worker EXCEPT !.role = RoleArn, !.pc = "deploy",
                                       !.calls = @ \o <<create, attach, wait, get>>]
    /\ UNCHANGED <<meterVars, accountVars, reportVars, alert, download>>

\* Codebuild creates no project without a service role.
Answers(role) == IF role = "None" THEN ProjectAnswers \ {"created"} ELSE ProjectAnswers

\* Mutant: the wait for the role does not count as a retry.
deploy_project_waiting ==
    /\ worker.pc = "deploy"
    /\ worker.retries < MaxRetries
    /\ \E answer \in Answers(worker.role) :
          LET name == ProjectName(worker.operation)
              create == Request("create_project", worker.role)
              delete == Request("delete_project", name)
              retries == worker.retries + 1
          IN worker' =
                CASE answer = "created" ->
                        [worker EXCEPT !.created = TRUE, !.pc = "run",
                                       !.attempts = @ + 1,
                                       !.calls = @ \o <<create>>]
                  [] answer = "ResourceAlreadyExistsException" ->
                        [worker EXCEPT !.retries = retries,
                                       !.slept = @ + retries * 5,
                                       !.attempts = @ + 1,
                                       !.pc = IF retries < MaxRetries THEN "deploy" ELSE "run",
                                       !.calls = @ \o <<create, delete>>]
                  [] answer = "InvalidInputException" ->
                        [worker EXCEPT !.slept = @ + retries * 5,
                                       !.attempts = @ + 1,
                                       !.calls = @ \o <<create>>]
                  [] answer = "delete_project:ClientError" ->
                        [worker EXCEPT !.pc = "raised", !.raised = "ClientError",
                                       !.attempts = @ + 1,
                                       !.calls = @ \o <<create, delete>>]
                  [] OTHER ->
                        [worker EXCEPT !.pc = "raised", !.raised = "ClientError",
                                       !.attempts = @ + 1,
                                       !.calls = @ \o <<create>>]
    /\ UNCHANGED <<meterVars, accountVars, reportVars, alert, download>>

\* deploy_project, one turn of `while retries < 5`: create_project, then break,
\* or delete_project and sleep, or sleep, or the exception nobody catches.  The
\* loop is left for run_project when the project is created or retries is 5.
deploy_project ==
    /\ worker.pc = "deploy"
    /\ worker.retries < MaxRetries
    /\ \E answer \in Answers(worker.role) :
          LET name == ProjectName(worker.operation)
              create == Request("create_project", worker.role)
              delete == Request("delete_project", name)
              retries == worker.retries + 1
          IN worker' =
                CASE answer = "created" ->
                        [worker EXCEPT !.created = TRUE, !.pc = "run",
                                       !.attempts = @ + 1,
                                       !.calls = @ \o <<create>>]
                  [] answer = "ResourceAlreadyExistsException" ->
                        [worker EXCEPT !.retries = retries,
                                       !.slept = @ + retries * 5,
                                       !.attempts = @ + 1,
                                       !.pc = IF retries < MaxRetries THEN "deploy" ELSE "run",
                                       !.calls = @ \o <<create, delete>>]
                  [] answer = "InvalidInputException" ->
                        [worker EXCEPT !.retries = retries,
                                       !.slept = @ + retries * 5,
                                       !.attempts = @ + 1,
                                       !.pc = IF retries < MaxRetries THEN "deploy" ELSE "run",
                                       !.calls = @ \o <<create>>]
                  [] answer = "delete_project:ClientError" ->
                        [worker EXCEPT !.pc = "raised", !.raised = "ClientError",
                                       !.attempts = @ + 1,
                                       !.calls = @ \o <<create, delete>>]
                  [] OTHER ->
                        [worker EXCEPT !.pc = "raised", !.raised = "ClientError",
                                       !.attempts = @ + 1,
                                       !.calls = @ \o <<create>>]
    /\ UNCHANGED <<meterVars, accountVars, reportVars, alert, download>>

\* Mutant: a build is started only for a project created by this invocation.
run_project_if_created ==
    /\ worker.pc = "run"
    /\ \E started_build \in BOOLEAN :
          LET start == Request("start_build", ProjectName(worker.operation))
          IN worker' =
                IF ~worker.created THEN [worker EXCEPT !.pc = "done"]
                ELSE IF started_build
                THEN [worker EXCEPT !.pc = "done", !.calls = @ \o <<start>>]
                ELSE [worker EXCEPT !.pc = "raised", !.raised = "ClientError",
                                    !.calls = @ \o <<start>>]
    /\ UNCHANGED <<meterVars, accountVars, reportVars, alert, download>>

\* run_project: client.start_build(projectName=name), whatever deploy_project did.
run_project ==
    /\ worker.pc = "run"
    /\ \E started_build \in BOOLEAN :
          LET start == Request("start_build", ProjectName(worker.operation))
          IN worker' =
                IF started_build
                THEN [worker EXCEPT !.pc = "done", !.calls = @ \o <<start>>]
                ELSE [worker EXCEPT !.pc = "raised", !.raised = "ClientError",
                                    !.calls = @ \o <<start>>]
    /\ UNCHANGED <<meterVars, accountVars, reportVars, alert, download>>

WorkerStep ==
    \/ deploy_role_for_codebuild
    \/ deploy_project
    \/ run_project

WorkerNext ==
    \/ prepare
    \/ purge
    \/ WorkerStep

SpecWorker == Init /\ [][WorkerNext]_vars

\* Every request that was sent is answered, and the invocation goes on.
SpecWorkerFair == SpecWorker /\ WF_vars(WorkerStep)

\* ------------------------------------------------------- the alert relay
\* on_alert_handler.handle_queue_event relays the records of one batch of the
\* queue to the topic of os.environ['TOPIC_ARN'].
MaxBatch == 2         \* records in one batch
MaxBatches == 2       \* batches handled in one behaviour

\* "arn:aws:sns:eu:1111:Alerts", the topic of account 1111
TopicOfAccount ==
    <<"a", "r", "n", ":", "a", "w", "s", ":", "s", "n", "s", ":", "e", "u", ":",
      "1", "1", "1", "1", ":", "A", "l", "e", "r", "t", "s">>

\* "arn:aws:sns", too short for an account
ShortTopic == <<"a", "r", "n", ":", "a", "w", "s", ":", "s", "n", "s">>

\* The bodies of the records: a notification of SNS, a plain text, and three
\* texts that are JSON without being a notification of SNS.
Bodies == {"notification", "Budget exceeded", "{\"hello\": \"world\"}", "42",
           "short notification"}

JSONDecodeError == [type |-> "JSONDecodeError"]

\* json.loads(text) for the bodies above
json_loads(text) ==
    CASE text = "notification" ->
            [type |-> "dict", value |-> [TopicArn |-> TopicOfAccount,
                                         Message |-> "some message",
                                         Subject |-> "some subject"]]
      [] text = "short notification" ->
            [type |-> "dict", value |-> [TopicArn |-> ShortTopic,
                                         Message |-> "some message"]]
      [] text = "{\"hello\": \"world\"}" ->
            [type |-> "dict", value |-> [hello |-> "world"]]
      [] text = "42" -> [type |-> "int", value |-> 42]
      [] OTHER -> JSONDecodeError

\* str.split(sep): the pieces between the separators
RECURSIVE split_from(_, _, _)
split_from(chars, sep, piece) ==
    IF chars = <<>> THEN <<piece>>
    ELSE IF Head(chars) = sep THEN <<piece>> \o split_from(Tail(chars), sep, <<>>)
    ELSE split_from(Tail(chars), sep, Append(piece, Head(chars)))

split(chars, sep) == split_from(chars, sep, <<>>)

\* MESSAGE_TEMPLATE.format(account_id=account_id, message=message).strip()
get_message(account_id, message) ==
    <<"You will find below a copy of the alert that has been sent automatically to the holder of account '",
      account_id, "':\n\n----\n\n", message>>

\* SUBJECT_TEMPLATE.format(account_id=account_id).strip()
get_subject(account_id) == <<"Alert on account '", account_id, "'">>

relay_notification(account_id, message) ==
    [TopicArn |-> "TOPIC_ARN",
     Message |-> get_message(account_id, message),
     Subject |-> get_subject(account_id)]

relay_message(message) ==
    [TopicArn |-> "TOPIC_ARN", Message |-> message, Subject |-> "Alert message"]

Relayed(notification) == [notification |-> notification, raised |-> "none"]
Failed(exception) == [notification |-> <<>>, raised |-> exception]

\* handle_sqs_record: json.loads, body['TopicArn'].split(':')[4], body['Message'];
\* only json.decoder.JSONDecodeError is caught.
handle_sqs_record(record) ==
    LET body == json_loads(record.body)
    IN IF body = JSONDecodeError THEN Relayed(relay_message(record.body))
       ELSE IF body.type # "dict" THEN Failed("TypeError")
       ELSE IF "TopicArn" \notin DOMAIN body.value THEN Failed("KeyError")
       ELSE IF Len(split(body.value.TopicArn, ":")) < 5 THEN Failed("IndexError")
       ELSE IF "Message" \notin DOMAIN body.value THEN Failed("KeyError")
       ELSE Relayed(relay_notification(split(body.value.TopicArn, ":")[5],
                                       body.value.Message))

\* The records of the queue, and one of another source.
SqsRecords == {[eventSource |-> "aws:sqs", body |-> body] : body \in Bodies}
Records == SqsRecords \cup {[eventSource |-> "aws:s3", body |-> "notification"]}

Batches == UNION {[1..n -> Records] : n \in 0..MaxBatch}

\* handle_queue_event is invoked with a batch.
handle_queue_event ==
    /\ alert.pc \in {"idle", "done", "raised"}
    /\ alert.nth < MaxBatches
    /\ \E batch \in Batches :
          alert' = [NoBatch EXCEPT !.pc = "loop", !.todo = batch, !.nth = alert.nth + 1]
    /\ UNCHANGED <<meterVars, accountVars, reportVars, worker, download>>

\* for record in event['Records']: handle_record(record)
handle_record_of_queue ==
    /\ alert.pc = "loop"
    /\ alert.todo # <<>>
    /\ LET record == Head(alert.todo)
           outcome == IF record.eventSource = "aws:sqs"
                      THEN handle_sqs_record(record)
                      ELSE Failed("AttributeError")
       IN alert' = [alert EXCEPT
                       !.todo = Tail(@),
                       !.handled = Append(@, record),
                       !.published = IF outcome.raised = "none"
                                     THEN Append(@, outcome.notification) ELSE @,
                       !.raised = outcome.raised,
                       !.pc = IF outcome.raised = "none" THEN "loop" ELSE "raised"]
    /\ UNCHANGED <<meterVars, accountVars, reportVars, worker, download>>

\* return '[OK]'
return_ok ==
    /\ alert.pc = "loop"
    /\ alert.todo = <<>>
    /\ alert' = [alert EXCEPT !.pc = "done", !.returned = "[OK]"]
    /\ UNCHANGED <<meterVars, accountVars, reportVars, worker, download>>

AlertNext ==
    \/ handle_queue_event
    \/ handle_record_of_queue
    \/ return_ok

SpecAlert == Init /\ [][AlertNext]_vars

\* -------------------------------------------------- the attachment proxy
\* on_exception_handler.download_attachment answers a web request for a report
\* of the bucket os.environ['REPORTS_BUCKET_NAME'], under the prefix
\* os.environ['REPORTING_EXCEPTIONS_PREFIX']; both are set in the deployed function.
MaxRequests == 2      \* requests in one behaviour

\* required = {('sec-fetch-mode', 'navigate'), ...}
required == {<<"sec-fetch-mode", "navigate">>, <<"sec-fetch-site", "cross-site">>,
             <<"sec-fetch-user", "?1">>, <<"sec-fetch-dest", "document">>}

HeaderNames == {pair[1] : pair \in required}

\* What a browser may send for a header beside the required value.
HeaderValues(name) ==
    {pair[2] : pair \in {q \in required : q[1] = name}} \cup {"same-origin"}

\* The headers of a request: any of the four may be missing or have another value.
Headers ==
    UNION {{h \in [names -> UNION {HeaderValues(name) : name \in HeaderNames}] :
                \A name \in names : h[name] \in HeaderValues(name)} :
              names \in SUBSET HeaderNames}

\* The paths of the requests: "/r", "r", "//r", "/./r", "/../r", "/r?v", "/..?"
Paths == {<<"/", "r">>, <<"r">>, <<"/", "/", "r">>, <<"/", ".", "/", "r">>,
          <<"/", ".", ".", "/", "r">>, <<"/", "r", "?", "v">>, <<"/", ".", ".", "?">>}

\* What the object store answers to get_object and to the read of the body.
StoreAnswers == {"object", "NoSuchKey", "ClientError", "UnicodeDecodeError"}

\* headers.get(key)
HeaderGet(headers, key) == IF key \in DOMAIN headers THEN headers[key] ELSE "None"

\* sub in text
In(sub, text) ==
    \E i \in 1..(Len(text) - Len(sub) + 1) : SubSeq(text, i, i + Len(sub) - 1) = sub

\* text.lstrip('/')
RECURSIVE lstrip(_)
lstrip(text) ==
    IF text # <<>> /\ Head(text) = "/" THEN lstrip(Tail(text)) ELSE text

\* '/'.join([os.environ["REPORTING_EXCEPTIONS_PREFIX"], path.lstrip('/')])
ObjectKey(path) == <<"REPORTING_EXCEPTIONS_PREFIX", "/">> \o lstrip(path)

Response(code, reads) == [statusCode |-> code, reads |-> reads, raised |-> "none"]

\* Mutant: the path is examined before the headers.
download_attachment_path_first(path, headers, stored) ==
    IF In(<<".", ".">>, path) \/ In(<<"?">>, path) THEN Response(400, <<>>)
    ELSE IF \E pair \in required : HeaderGet(headers, pair[1]) # pair[2]
    THEN Response(403, <<>>)
    ELSE LET read == <<[Bucket |-> "REPORTS_BUCKET_NAME", Key |-> ObjectKey(path)]>>
         IN CASE stored = "object" -> Response(200, read)
              [] stored = "NoSuchKey" -> Response(404, read)
              [] OTHER -> Response(500, read)

\* download_attachment: the header gate, the path check, then s3.get_object.
download_attachment(path, headers, stored) ==
    IF \E pair \in required : HeaderGet(headers, pair[1]) # pair[2]
    THEN Response(403, <<>>)
    ELSE IF In(<<".", ".">>, path) \/ In(<<"?">>, path) THEN Response(400, <<>>)
    ELSE LET read == <<[Bucket |-> "REPORTS_BUCKET_NAME", Key |-> ObjectKey(path)]>>
         IN CASE stored = "object" -> Response(200, read)
              [] stored = "NoSuchKey" -> Response(404, read)
              [] OTHER -> Response(500, read)

\* handle_attachment_request: download_attachment(event.get('rawPath', '/'),
\* event.get('headers', {}))
handle_attachment_request ==
    /\ download.nth < MaxRequests
    /\ \E path \in Paths \cup {<<"/">>}, headers \in Headers, stored \in StoreAnswers :
          LET response == download_attachment(path, headers, stored)
          IN download' = [path |-> path, headers |-> headers,
                          stored |-> IF response.reads = <<>> THEN "none" ELSE stored,
                          statusCode |-> response.statusCode,
                          raised |-> response.raised,
                          reads |-> response.reads,
                          nth |-> download.nth + 1]
    /\ UNCHANGED <<meterVars, accountVars, reportVars, worker, alert>>

DownloadNext == handle_attachment_request

SpecDownload == Init /\ [][DownloadNext]_vars

\* ---------------------------------------------------------------- claims
\* The completion label of a kind, and back.
LabelOf(kind) ==
    IF kind = "Maintenance" THEN "SuccessfulMaintenanceEvent"
                            ELSE "SuccessfulOnBoardingEvent"

\* The number of events of a sequence that carry the label.
CountLabel(events, label) ==
    Cardinality({i \in DOMAIN events : events[i].label = label})

\* The step appends one event to the bus.
Emits == Len(emitted') = Len(emitted) + 1

\* The identifier written by the last starting event handled for the key (0: none).
LastStart(key) ==
    LET ids == {i \in DOMAIN started : started[i].key = key}
    IN IF ids = {} THEN 0 ELSE CHOOSE i \in ids : \A j \in ids : j <= i

\* Invocation p handles a ReleasedAccount event and is about to return.
ReleasedDone(p) == pc[p] = "return" /\ input[p].label = "ReleasedAccount"

\* Invocation p handles the ReleasedAccount event that the previous invocation handled.
Redelivery(p) ==
    /\ input[p].label = "ReleasedAccount"
    /\ prev.label = "ReleasedAccount"
    /\ prev.account = input[p].account

\* C1: when the same ReleasedAccount event is handled twice in succession, the
\* first delivery emits one completion event per kind that was open before it
\* (none for a kind that was not open, and a record whose time-to-live runs out
\* while it is handled may go unreported), and no statement of the second
\* delivery changes the datastore or emits anything.
SecondDeliveryIsNoOp ==
    \A p \in SeqInvocations :
        Redelivery(p) /\ HandlerStep(p) => datastore' = datastore /\ emitted' = emitted

FirstDeliveryClosedOnce ==
    \A p \in SeqInvocations :
        Redelivery(p) /\ pc[p] = "return" =>
            /\ out[p] = <<>>
            /\ \A k \in Kinds :
                LET n == CountLabel(prev.out, LabelOf(k))
                IN /\ n <= 1
                   /\ prev.openAt[k] = NoRecord => n = 0
                   /\ prev.openAt[k].expiration > prev.returnedAt => n = 1

CloseIsIdempotent == [][SecondDeliveryIsNoOp]_vars /\ []FirstDeliveryClosedOnce

CloseIsIdempotentWitness ==
    \E p \in SeqInvocations :
        /\ Redelivery(p) /\ pc[p] = "return"
        /\ Len(prev.out) = 1
        /\ Len(emitted) = 1

\* C2: when a ReleasedAccount event for account A has been handled, each kind
\* whose record was readable (open before the delivery and not expired while it
\* was handled) has been removed from the datastore and exactly one completion
\* event carrying that record has been emitted for it, also when both kinds
\* were open.
ReleasedClosesBothKinds ==
    \A p \in SeqInvocations :
        ReleasedDone(p) =>
            \A k \in Kinds :
                openAt[p][k].expiration > now =>
                    /\ Key(k, input[p].account) \notin DOMAIN datastore
                    /\ CountLabel(out[p], LabelOf(k)) = 1
                    /\ \A i \in DOMAIN out[p] :
                        out[p][i].label = LabelOf(k) =>
                            /\ out[p][i].payload.begin = openAt[p][k].value.begin
                            /\ out[p][i].payload.identifier = openAt[p][k].value.identifier
                            /\ \E j \in DOMAIN emitted : emitted[j] = out[p][i]

ReleasedClosesBothKindsWitness ==
    \E p \in SeqInvocations :
        /\ ReleasedDone(p)
        /\ \A k \in Kinds : openAt[p][k].expiration > now
        /\ Len(out[p]) = 2

\* The kind a starting event opens.
KindOfStart(label) == IF label = "CreatedAccount" THEN "OnBoarding" ELSE "Maintenance"

\* C3: the statement that handles a starting event for account A leaves, under
\* the key of its kind and A, a transaction made of begin = the time of
\* handling and an identifier no earlier starting event used, with no end and
\* no duration, whatever the key held before.
StartWritesFreshTransaction ==
    \A p \in SeqInvocations :
        /\ input[p].label \in {"CreatedAccount", "ExpiredAccount"}
        /\ pc[p] \in {"created", "expired"}
        /\ HandlerStep(p)
        => LET key == Key(KindOfStart(input[p].label), input[p].account)
           IN /\ key \in DOMAIN datastore'
              /\ DOMAIN datastore'[key].value = {"begin", "identifier"}
              /\ datastore'[key].value.begin = now
              /\ datastore'[key].value.identifier \notin DOMAIN started
              /\ \A k \in DOMAIN datastore :
                    datastore[k].value.identifier # datastore'[key].value.identifier
              /\ pc'[p] = "return"

StartAlwaysWritesFresh == [][StartWritesFreshTransaction]_vars

StartOverwritesWitness ==
    \E p \in SeqInvocations :
        /\ pc[p] = "return"
        /\ input[p].label \in {"CreatedAccount", "ExpiredAccount"}
        /\ LET k == KindOfStart(input[p].label)
               key == Key(k, input[p].account)
           IN /\ openAt[p][k] # NoRecord
              /\ key \in DOMAIN datastore
              /\ datastore[key].value.identifier # openAt[p][k].value.identifier
              /\ datastore[key].value.begin > openAt[p][k].value.begin

\* C4: with one invocation at a time, a step that emits a completion event
\* finds the key of the closed transaction absent from the datastore, and leaves
\* it absent.
DeletedWhenEmitted ==
    Emits =>
        LET e == emitted'[Len(emitted')]
            key == started[e.payload.identifier].key
        IN key \notin DOMAIN datastore /\ key \notin DOMAIN datastore'

DeleteBeforeEmit == [][DeletedWhenEmitted]_vars

DeleteBeforeEmitWitness ==
    \E p \in SeqInvocations :
        /\ pc[p] = "onboarding_retrieve"
        /\ Len(out[p]) = 1
        /\ Key("Maintenance", input[p].account) \notin DOMAIN datastore
        /\ Key("OnBoarding", input[p].account) \in DOMAIN datastore

\* C5: the SuccessfulOnBoardingEvent emitted while ReleasedAccount is handled
\* for account X carries begin = the time the last CreatedAccount for X was
\* handled, end = the time of the emitting statement, and duration = end -
\* begin, which is not negative.
OnBoardingDurationAtEmit ==
    \A p \in SeqInvocations :
        pc[p] = "onboarding_emit" /\ HandlerStep(p) =>
            /\ Emits
            /\ LET e == emitted'[Len(emitted')]
                   last == LastStart(Key("OnBoarding", input[p].account))
               IN /\ e.label = "SuccessfulOnBoardingEvent"
                  /\ last # 0
                  /\ e.payload.begin = started[last].begin
                  /\ e.payload.end = now
                  /\ e.payload.duration = e.payload.end - e.payload.begin
                  /\ e.payload.duration >= 0

OnBoardingDurationKept ==
    \A i \in DOMAIN emitted :
        emitted[i].label = "SuccessfulOnBoardingEvent" =>
            LET e == emitted[i].payload
            IN /\ e.begin = started[e.identifier].begin
               /\ e.begin <= e.end /\ e.end <= now
               /\ e.duration = e.end - e.begin

OnBoardingDuration == [][OnBoardingDurationAtEmit]_vars /\ []OnBoardingDurationKept

OnBoardingDurationWitness ==
    \E i \in DOMAIN emitted :
        /\ emitted[i].label = "SuccessfulOnBoardingEvent"
        /\ emitted[i].payload.begin = 1
        /\ emitted[i].payload.end = 2
        /\ emitted[i].payload.duration = 1

\* Where the close of a kind reads the datastore, and where it goes on an absent record.
RetrieveAt(kind) ==
    IF kind = "Maintenance" THEN "maintenance_retrieve" ELSE "onboarding_retrieve"

AfterAbsent(kind) ==
    IF kind = "Maintenance" THEN "onboarding_retrieve" ELSE "return"

\* C6: when ReleasedAccount is handled for an account with no readable record
\* of a kind, the close of that kind is one read that changes nothing: the
\* datastore and the bus stay as they are, the handler goes on to what follows, no
\* completion event of that kind is emitted and the invocation returns OK.
AbsentKindIsSkipped ==
    \A p \in SeqInvocations : \A k \in Kinds :
        /\ pc[p] = RetrieveAt(k)
        /\ retrieve(Key(k, input[p].account)) = None
        /\ HandlerStep(p)
        => /\ datastore' = datastore
           /\ emitted' = emitted
           /\ pc'[p] = AfterAbsent(k)

AbsentKindEmitsNothing ==
    \A p \in SeqInvocations :
        /\ result[p] \in {"none", "OK"}
        /\ pc[p] = "idle" /\ prev.label = "ReleasedAccount" => result[p] = "OK"
        /\ ReleasedDone(p) =>
              \A k \in Kinds :
                  openAt[p][k] = NoRecord => CountLabel(out[p], LabelOf(k)) = 0

ReleasedWithoutOpenIsNoOp == [][AbsentKindIsSkipped]_vars /\ []AbsentKindEmitsNothing

ReleasedWithoutOpenWitness ==
    \E p \in SeqInvocations :
        /\ ReleasedDone(p)
        /\ openAt[p]["Maintenance"] = NoRecord
        /\ openAt[p]["OnBoarding"] # NoRecord
        /\ Len(out[p]) = 1
        /\ out[p][1].label = "SuccessfulOnBoardingEvent"

\* C7: no statement of an invocation whose event label is none of
\* CreatedAccount, ExpiredAccount, ReleasedAccount changes the datastore or emits
\* an event, and the invocation returns OK.
UnrecognisedTouchesNothing ==
    \A p \in SeqInvocations :
        /\ input[p].label \notin Recognised \cup {"none"}
        /\ HandlerStep(p)
        => datastore' = datastore /\ emitted' = emitted

UnrecognisedReturnsOk ==
    \A p \in SeqInvocations :
        pc[p] = "idle" /\ prev.label \notin Recognised \cup {"none"} =>
            result[p] = "OK" /\ prev.out = <<>>

UnrecognisedIsIgnored == [][UnrecognisedTouchesNothing]_vars /\ []UnrecognisedReturnsOk

UnrecognisedIsIgnoredWitness ==
    \E p \in SeqInvocations :
        /\ pc[p] = "idle"
        /\ prev.label = "PreparedAccount"
        /\ result[p] = "OK"
        /\ Key("OnBoarding", prev.account) \in DOMAIN datastore

\* C8: a starting event handled while a transaction of its kind is still open
\* for the account replaces the stored begin and identifier, and a completion
\* event carries the identifier and begin of the last starting event handled
\* for its key, so its duration runs from the last start, not the first.
RestartReplaces ==
    \A p \in SeqInvocations :
        /\ pc[p] \in {"created", "expired"}
        /\ HandlerStep(p)
        /\ retrieve(Key(KindOfStart(input[p].label), input[p].account)) # None
        => LET key == Key(KindOfStart(input[p].label), input[p].account)
           IN /\ datastore'[key].value.begin = now
              /\ datastore'[key].value.identifier # datastore[key].value.identifier

ClosedFromLastStart ==
    \A p \in SeqInvocations : \A k \in Kinds :
        pc[p] \in {"maintenance_emit", "onboarding_emit"} /\ HandlerStep(p) /\ Emits
        /\ emitted'[Len(emitted')].label = LabelOf(k)
        => LET e == emitted'[Len(emitted')].payload
               last == LastStart(Key(k, input[p].account))
           IN /\ e.identifier = last
              /\ e.duration = now - started[last].begin

StartIsNotIdempotent == [][RestartReplaces /\ ClosedFromLastStart]_vars

StartIsNotIdempotentWitness ==
    \E i \in DOMAIN emitted : \E first \in DOMAIN started :
        LET e == emitted[i].payload
        IN /\ first < e.identifier
           /\ started[first].key = started[e.identifier].key
           /\ started[first].begin < e.begin
           /\ e.duration = e.end - e.begin
           /\ e.duration < e.end - started[first].begin

\* C9: every event on the bus is a SuccessfulMaintenanceEvent closing a
\* Maintenance record or a SuccessfulOnBoardingEvent closing an OnBoarding
\* record, and its payload has exactly the fields begin, end, duration and
\* identifier, the identifier and begin being those a starting event of that
\* kind wrote.
CompletionEventsWellFormed ==
    \A i \in DOMAIN emitted :
        LET e == emitted[i]
        IN /\ DOMAIN e = {"label", "payload"}
           /\ e.label \in {"SuccessfulMaintenanceEvent", "SuccessfulOnBoardingEvent"}
           /\ DOMAIN e.payload = {"begin", "end", "duration", "identifier"}
           /\ e.payload.identifier \in DOMAIN started
           /\ e.label = LabelOf(started[e.payload.identifier].key[1])
           /\ e.payload.begin = started[e.payload.identifier].begin

CompletionEventsWitness ==
    /\ Len(emitted) = 2
    /\ emitted[1].label = "SuccessfulMaintenanceEvent"
    /\ emitted[2].label = "SuccessfulOnBoardingEvent"

\* The identifiers carried by more than one completion event.
DuplicatedIdentifiers ==
    {emitted[i].payload.identifier : i \in {i \in DOMAIN emitted :
        \E j \in DOMAIN emitted :
            j # i /\ emitted[j].payload.identifier = emitted[i].payload.identifier}}

\* C10: two completion events carry the same identifier only when a second
\* invocation retrieved the transaction before the first one deleted it; with
\* invocations one at a time no identifier is reported twice.
DuplicatesOnlyByRace == DuplicatedIdentifiers \subseteq raced

DuplicatesOnlyByRaceWitness ==
    /\ DuplicatedIdentifiers # {}
    /\ Len(emitted) = 2
    /\ emitted[1].payload.identifier = emitted[2].payload.identifier

\* ---------------------------------------------------------------- C11
\* The transaction last started for the key has outlived its time to live.
StartExpired(key) ==
    /\ LastStart(key) # 0
    /\ started[LastStart(key)].begin + TtlSeconds <= now

\* C11: when ReleasedAccount is handled for an account whose last started
\* transaction of a kind has outlived its time to live, the close of that kind
\* goes as if the transaction had never been started, whether the datastore
\* still stores the expired record or has reaped it: the read finds nothing, the
\* datastore and the bus stay as they are, no completion event of that kind is
\* emitted and no error is raised.
ExpiredKindIsSkipped ==
    \A p \in SeqInvocations : \A k \in Kinds :
        /\ pc[p] = RetrieveAt(k)
        /\ StartExpired(Key(k, input[p].account))
        /\ HandlerStep(p)
        => /\ transaction'[p] = None
           /\ datastore' = datastore
           /\ emitted' = emitted
           /\ result' = result
           /\ pc'[p] = AfterAbsent(k)

ExpiredKindEmitsNothing ==
    \A p \in SeqInvocations :
        /\ result[p] # "error"
        /\ ReleasedDone(p) =>
              \A k \in Kinds :
                  /\ StartExpired(Key(k, input[p].account))
                  /\ openAt[p][k] = NoRecord
                  => CountLabel(out[p], LabelOf(k)) = 0

ExpiredTransactionIsNeverStarted == [][ExpiredKindIsSkipped]_vars /\ []ExpiredKindEmitsNothing

\* ReleasedAccount handled with nothing emitted while one kind's expired record
\* is still stored and the other kind's has been reaped.
ExpiredTransactionWitness ==
    \E p \in SeqInvocations : \E k1, k2 \in Kinds :
        /\ ReleasedDone(p)
        /\ StartExpired(Key(k1, input[p].account))
        /\ StartExpired(Key(k2, input[p].account))
        /\ Key(k1, input[p].account) \in DOMAIN datastore
        /\ Key(k2, input[p].account) \notin DOMAIN datastore
        /\ openAt[p] = NoOpen
        /\ out[p] = <<>>

\* ---------------------------------------------------------------- C12
\* C12: move(A, S) with S not a member of State, be it an object that only
\* carries a 'value' attribute or a raw string, fails with the invalid-state
\* error and sends no request that changes a tag, whatever DRY_RUN is.
NonMemberIsRefused ==
    \A account \in Callers : \A state \in MoveArguments \ State :
        CallMove(account, state) =>
            /\ lastCall'.raised = "Unexpected state type"
            /\ tags' = tags
            /\ calls' = calls

MoveRejectsNonMembers == [][NonMemberIsRefused]_vars

\* In live mode, an object whose 'value' is the value of a member was refused.
MoveRejectsNonMembersWitness ==
    /\ environ = "FALSE"
    /\ lastCall.method = "move"
    /\ lastCall.argument = [type |-> "SimpleNamespace", value |-> "released"]
    /\ lastCall.raised = "Unexpected state type"
    /\ tags = lastCall.before
    /\ calls = <<>>

\* ---------------------------------------------------------------- C13
\* C13: when DRY_RUN is anything but exactly "FALSE" (not defined, "false",
\* "true", the empty string), move sends no request that changes a tag and
\* leaves every tag as it was, whether its argument is a member or not.
DryRunMoveChangesNothing ==
    \A account \in Callers : \A state \in MoveArguments :
        environ # "FALSE" /\ CallMove(account, state) =>
            /\ tags' = tags
            /\ calls' = calls

DryRunMutatesNothing == [][DryRunMoveChangesNothing]_vars

\* With DRY_RUN set to "false", a move to a member returned and changed nothing.
DryRunMutatesNothingWitness ==
    /\ environ = "false"
    /\ lastCall.method = "move"
    /\ lastCall.account = "id1"
    /\ lastCall.argument = EXPIRED
    /\ lastCall.raised = "none"
    /\ "account:state" \in DOMAIN tags["id1"]
    /\ tags["id1"]["account:state"] = "released"
    /\ calls = <<>>

\* ---------------------------------------------------------------- C14
\* C14: in live mode (DRY_RUN exactly "FALSE"), move(A, S) with S a member
\* sends exactly one request, a tag_resource on A whose only tag is
\* 'account:state' with the value of S; afterwards that tag of A has that
\* value, every other tag of A and every tag of every other account is as
\* before, and no account's status changes.
LiveMoveSetsOneTag ==
    \A account \in Callers : \A state \in State :
        environ = "FALSE" /\ CallMove(account, state) =>
            /\ lastCall'.raised = "none"
            /\ calls' = Append(calls, [api |-> "tag_resource", ResourceId |-> account,
                                       Tags |-> <<[Key |-> "account:state",
                                                   Value |-> state.value]>>,
                                       NextToken |-> 0])
            /\ DOMAIN tags'[account] = DOMAIN tags[account] \cup {"account:state"}
            /\ tags'[account]["account:state"] = state.value
            /\ \A k \in DOMAIN tags[account] \ {"account:state"} :
                  tags'[account][k] = tags[account][k]
            /\ \A other \in Ids \ {account} : tags'[other] = tags[other]
            /\ status' = status

LiveMoveTagsOnlyState == [][LiveMoveSetsOneTag]_vars

\* A live move of an account that carries an owner and an unknown tag.
LiveMoveTagsOnlyStateWitness ==
    /\ environ = "FALSE"
    /\ lastCall.method = "move"
    /\ lastCall.account = "id1"
    /\ lastCall.argument = EXPIRED
    /\ Len(calls) = 1
    /\ DOMAIN tags["id1"] = TagKeys
    /\ tags["id1"]["account:state"] = "expired"
    /\ lastCall.before["id1"]["account:state"] = "released"
    /\ tags["id1"]["account:owner"] = lastCall.before["id1"]["account:owner"]

\* ---------------------------------------------------------------- C15
\* An address as addresses are written: words of letters and digits joined by
\* '.', '-' or '_', one '@', a domain, and endings of two letters or more.
Joiner == {Ord("."), Ord("-"), Ord("_")}
Letter == (65..90) \cup (97..122)
ValidEmail(text) == FullMatch(OwnerChars[text], Joiner, Letter)

WellTagged(account) ==
    /\ "account:owner" \in DOMAIN tags[account]
    /\ ValidEmail(tags[account]["account:owner"])
    /\ "account:state" \in DOMAIN tags[account]
    /\ tags[account]["account:state"] \in StateValues

\* C15: validate_tags(A) raises nothing if and only if the tags of A hold a
\* syntactically valid owner email under 'account:owner' and one of vanilla,
\* assigned, released, expired under 'account:state'; it never changes a tag.
ValidateIffWellTagged ==
    \A account \in Callers :
        CallValidateTags(account) =>
            /\ (lastCall'.raised = "none") <=> WellTagged(account)
            /\ tags' = tags
            /\ \A i \in DOMAIN calls' : calls'[i].api # "tag_resource"

ValidateTagsAcceptsExactlyValidTags == [][ValidateIffWellTagged]_vars

\* ---------------------------------------------------------------- C16
OwnerOf(account) == Get(tags[account], "account:owner")
StateOf(account) == Get(tags[account], "account:state")

\* C16: validate_tags raises for the first check that fails, in the order
\* owner present, owner well formed, state present, state a member: an owner
\* that is missing or malformed is what is reported whatever the state tag is,
\* and a state that is missing is reported before one that is not a member.
ValidateReportsEarliest ==
    \A account \in Callers :
        CallValidateTags(account) =>
            LET raised == lastCall'.raised
                ownerGood == OwnerOf(account) # PyNone /\ validate_owner(OwnerOf(account).value)
            IN /\ OwnerOf(account) = PyNone => raised = "Missing tag 'account:owner'"
               /\ OwnerOf(account) # PyNone /\ ~ownerGood =>
                      raised = "Invalid value for tag 'account:owner'"
               /\ ownerGood /\ StateOf(account) = PyNone =>
                      raised = "Missing tag 'account:state'"
               /\ ownerGood /\ StateOf(account) # PyNone
                            /\ StateOf(account).value \notin StateValues =>
                      raised = "Invalid value for tag 'account:state'"
               /\ tags' = tags

ValidateTagsFailsFast == [][ValidateReportsEarliest]_vars

\* An account with a malformed owner and no state tag: the owner is reported.
ValidateTagsFailsFastWitness ==
    /\ lastCall.method = "validate_tags"
    /\ lastCall.account = "id1"
    /\ OwnerOf("id1") = PyStr("a b")
    /\ StateOf("id1") = PyNone
    /\ lastCall.raised = "Invalid value for tag 'account:owner'"

\* ---------------------------------------------------------------- C17
\* C17: move enforces no order among the states: for every member S it
\* succeeds whatever the account's state tag is (a later state, no tag, a value
\* that is no member), it sends no request that reads the tags, and in live
\* mode the tag ends with the value of S.
MoveToAnyMember ==
    \A account \in Callers : \A state \in State :
        CallMove(account, state) =>
            /\ lastCall'.raised = "none"
            /\ \A i \in DOMAIN calls' : i > Len(calls) => calls'[i].api = "tag_resource"
            /\ environ = "FALSE" => tags'[account]["account:state"] = state.value

MoveIsNotMonotonic == [][MoveToAnyMember]_vars

\* An expired account moved back to vanilla in live mode.
MoveIsNotMonotonicWitness ==
    /\ environ = "FALSE"
    /\ lastCall.method = "move"
    /\ lastCall.account = "id1"
    /\ lastCall.raised = "none"
    /\ Get(lastCall.before["id1"], "account:state") = PyStr("expired")
    /\ StateOf("id1") = PyStr("vanilla")

\* ---------------------------------------------------------------- C18
\* How many moves to expired the running scan has issued for the account.
MovesTo(account) ==
    Cardinality({i \in DOMAIN scan.moved :
                    scan.moved[i] = [account |-> account, state |-> EXPIRED]})

\* C18: when a scan of the Maintenance Scanner has gone through every
\* account, each account that was active with 'account:state' = 'released' when
\* the scan started has received exactly one move to expired, and with exactly
\* one such account among the three exactly one move was issued.
ScanMovesEveryReleased ==
    scan.pc = "done" =>
        /\ \A account \in scan.eligible : MovesTo(account) = 1
        /\ Cardinality(scan.eligible) = 1 => Len(scan.moved) = 1

\* ---------------------------------------------------------------- C19
\* C19: a failure on one account does not abort the scan: when the
\* invocation is over, every account other than those that failed has been
\* examined, and moved if it was eligible.
ScanSurvivesFailure ==
    scan.pc \in {"done", "failed"} =>
        \A account \in Range(Listing) :
            \/ scan.pc = "failed" /\ account = Head(scan.todo)
            \/ /\ account \in Range(scan.examined)
               /\ account \in scan.eligible => MovesTo(account) = 1

\* ---------------------------------------------------------------- C20
\* C20: the scan goes through the accounts one after the other without
\* checkpoint or rollback: when an invocation stops midway the accounts examined
\* are those listed before the stopping point and none after it, a move already
\* made stays made, and when a later scan completes, the eligible accounts the
\* stopped one had left have been moved.
ScanResumesWithoutCheckpoint ==
    /\ scan.pc \in {"running", "failed"} =>
          /\ \A i \in DOMAIN scan.examined : scan.examined[i] = Listing[i]
          /\ Range(Tail(scan.todo)) \cap Range(scan.examined) = {}
          /\ \A i \in DOMAIN scan.moved :
                environ = "FALSE" /\ scan.pc = "running" =>
                    Get(tags[scan.moved[i].account], "account:state") = PyStr("expired")
    /\ scan.pc = "done" /\ scan.previous = "failed" =>
          \A account \in scan.left \cap scan.eligible : MovesTo(account) = 1

\* ---------------------------------------------------------------- C21
\* The mapping holds the keys of the listing, each with the value of its last
\* occurrence in the listing.
LastWins(listing, mapping) ==
    /\ DOMAIN mapping = {listing[i].Key : i \in DOMAIN listing}
    /\ \A i \in DOMAIN listing :
          (\A j \in DOMAIN listing : j > i => listing[j].Key # listing[i].Key)
              => mapping[listing[i].Key] = listing[i].Value

\* C21: list_tags merges all the pages of the tag listing into one mapping;
\* when a key occurs more than once, within a page or across pages, the value
\* of its last occurrence in page order is the one the mapping holds.
ListTagsMergesPages ==
    \A account \in Listed :
        CallListTags(account) =>
            LastWins(TagItems(account), lastCall'.returned.mapping)

ListTagsLastWins == [][ListTagsMergesPages]_vars

\* A listing of five tags over three pages in which two keys come twice.
ListTagsLastWinsWitness ==
    /\ lastCall.method = "list_tags"
    /\ lastCall.account = "repeated2"
    /\ Len(calls) - lastCall.requests = 3
    /\ lastCall.returned.mapping =
           [k \in TagKeys |-> CASE k = "account:owner" -> "a@b.cc"
                                [] k = "account:state" -> "released"
                                [] OTHER -> "yet_another_value"]

\* ---------------------------------------------------------------- C22
NoRepeat(seq) == \A i, j \in DOMAIN seq : seq[i] = seq[j] => i = j

\* C22: iterate_tags yields every tag of every page once, in page order and
\* in the order within the page, and ends with the page that carries no token;
\* so list_tags loses no tag of a later page and holds its keys in the order
\* they were first seen: three entries for chunks [owner, state] then [other].
IterateTagsYieldsAll ==
    \A account \in Listed :
        /\ CallIterateTags(account) =>
              /\ lastCall'.returned = TagItems(account)
              /\ list_tags_for_resource(account, calls'[Len(calls')].NextToken).NextToken = 0
        /\ CallListTags(account) =>
              LET keys == lastCall'.returned.keys
                  listing == TagItems(account)
                  seen(k) == CHOOSE i \in DOMAIN listing :
                                /\ listing[i].Key = k
                                /\ \A j \in DOMAIN listing : listing[j].Key = k => i <= j
              IN /\ NoRepeat(keys)
                 /\ Range(keys) = {listing[i].Key : i \in DOMAIN listing}
                 /\ Range(keys) = DOMAIN lastCall'.returned.mapping
                 /\ \A i, j \in DOMAIN keys : i < j => seen(keys[i]) < seen(keys[j])
                 /\ account \in Callers /\ DOMAIN tags[account] = TagKeys => keys = TagOrder

IterateTagsInPageOrder == [][IterateTagsYieldsAll]_vars

\* Owner and state on a first page, another tag on a second: three tags yielded.
IterateTagsInPageOrderWitness ==
    /\ lastCall.method = "iterate_tags"
    /\ lastCall.account = "id1"
    /\ Len(calls) - lastCall.requests = 2
    /\ Len(lastCall.returned) = 3
    /\ lastCall.returned[1].Key = "account:owner"
    /\ lastCall.returned[2].Key = "account:state"
    /\ lastCall.returned[3].Key = "another_tag"

\* ---------------------------------------------------------------- C23
\* C23: Account.list(parent) yields the identifier of every account of every
\* page in page order and ends: its first request carries no token, each
\* following request carries the NextToken of the response before it, a new
\* page is requested if and only if that response carried a token, and every
\* call starts its pagination afresh.
ListFollowsTokens ==
    \A parent \in Parents :
        CallList(parent) =>
            LET sent == SubSeq(calls', Len(calls) + 1, Len(calls'))
                answer(k) == list_accounts_for_parent(parent, sent[k].NextToken)
            IN /\ lastCall'.returned = Members[parent]
               /\ Len(sent) >= 1
               /\ sent[1].NextToken = 0
               /\ \A k \in DOMAIN sent :
                     /\ sent[k].api = "list_accounts_for_parent"
                     /\ sent[k].ResourceId = parent
                     /\ k < Len(sent) => /\ answer(k).NextToken # 0
                                         /\ sent[k + 1].NextToken = answer(k).NextToken
               /\ answer(Len(sent)).NextToken = 0

ListYieldsEveryPage == [][ListFollowsTokens]_vars

\* A second call of list for a parent of two pages sent two requests again.
ListYieldsEveryPageWitness ==
    /\ lastCall.method = "list"
    /\ lastCall.account = "ou-parent"
    /\ lastCall.nth = 2
    /\ Len(calls) = 4
    /\ calls[3].NextToken = 0
    /\ calls[4].NextToken # 0
    /\ lastCall.returned = <<"id1", "id2", "id3">>

\* ---------------------------------------------------------------- C24
\* Reading a date-bucket key back: the number a run of digits writes, the date
\* a key 'YYYY-MM-DD' writes, and the order of two keys as strings.
DigitValue(c) == CHOOSE n \in 0..9 : Digit(n) = c
RECURSIVE Number(_)
Number(chars) ==
    IF chars = <<>> THEN 0
    ELSE 10 * Number(SubSeq(chars, 1, Len(chars) - 1)) + DigitValue(chars[Len(chars)])
ParseDate(key) ==
    Date(Number(SubSeq(key, 1, 4)), Number(SubSeq(key, 6, 7)), Number(SubSeq(key, 9, 10)))
CodePoint(c) == IF c = "-" THEN 45 ELSE 48 + DigitValue(c)
StringLess(a, b) ==
    \E k \in 1..Len(a) :
        /\ k <= Len(b)
        /\ \A i \in 1..(k - 1) : a[i] = b[i]
        /\ CodePoint(a[k]) < CodePoint(b[k])

\* C24: get_hashes(day) returns the date-bucket keys 'YYYY-MM-DD' of day 1
\* to day N of the month of 'day', N being the day of the month of 'day', in
\* ascending order, without duplicate or gap, none after 'day' and none of
\* another month.
HashesCoverMonthToDate ==
    handle_daily_reporting =>
        LET hashes == reporting'.hashes
        IN /\ Len(hashes) = today.day
           /\ \A i \in DOMAIN hashes :
                 /\ Len(hashes[i]) = 10
                 /\ hashes[i][5] = "-" /\ hashes[i][8] = "-"
                 /\ ParseDate(hashes[i]) = Date(today.year, today.month, i)
           /\ \A i, j \in DOMAIN hashes : i < j => StringLess(hashes[i], hashes[j])

GetHashesMonthToDate == [][HashesCoverMonthToDate]_vars

\* A run on the third of February read the first, the second and the third.
GetHashesMonthToDateWitness ==
    /\ reporting.handler = "daily"
    /\ reporting.day = Date(2024, 2, 3)
    /\ reporting.hashes = << <<"2", "0", "2", "4", "-", "0", "2", "-", "0", "1">>,
                             <<"2", "0", "2", "4", "-", "0", "2", "-", "0", "2">>,
                             <<"2", "0", "2", "4", "-", "0", "2", "-", "0", "3">> >>

\* ---------------------------------------------------------------- C25
\* The data rows of all the reports together.
RECURSIVE DataRows(_, _)
DataRows(reports, i) ==
    IF i > Len(reports.labels) THEN 0
    ELSE Len(reports.buffers[reports.labels[i]]) - 1 + DataRows(reports, i + 1)

\* C25: build_reports returns one report for each distinct cost center of
\* the records: the report begins with the header row (Cost Center,
\* Transaction, Stamp, Account, Identifier, Duration), which comes only once,
\* and then holds one row for each record of that cost center, in the order of
\* the records, and no row of another cost center; the data rows of all reports
\* are as many as the records.
OneReportPerCostCenter ==
    handle_daily_reporting =>
        LET reports == reporting'.reports
            records == reporting'.records
        IN /\ NoRepeat(reports.labels)
           /\ Range(reports.labels) = {records[i].value["cost-center"] : i \in DOMAIN records}
           /\ DOMAIN reports.buffers = Range(reports.labels)
           /\ \A label \in DOMAIN reports.buffers :
                 LET buffer == reports.buffers[label]
                     own == SelectSeq(records, LAMBDA r : r.value["cost-center"] = label)
                 IN /\ buffer[1] = <<"Cost Center", "Transaction", "Stamp", "Account",
                                     "Identifier", "Duration">>
                    /\ Len(buffer) = Len(own) + 1
                    /\ \A k \in DOMAIN own :
                          buffer[k + 1] = <<label, own[k].value["transaction"],
                                            own[k].value["stamp"], own[k].value["account"],
                                            own[k].value["identifier"],
                                            own[k].value["duration"]>>
           /\ DataRows(reports, 1) = Len(records)

BuildReportsGroupsByCostCenter == [][OneReportPerCostCenter]_vars

\* Three records of the same cost center but the second, read on the fifth
\* day: two reports, the first with two rows.
BuildReportsWitness ==
    /\ reporting.handler = "daily"
    /\ reporting.day = Date(2024, 2, 5)
    /\ Len(reporting.records) = 3
    /\ reporting.reports.labels = <<"cc1", "cc2">>
    /\ Len(reporting.reports.buffers["cc1"]) = 3
    /\ reporting.reports.buffers["cc1"][3][3] = "3"

\* Three records of three cost centers over a window of five days: three reports.
BuildReportsThreeWitness ==
    /\ reporting.handler = "daily"
    /\ reporting.day = Date(2024, 2, 5)
    /\ Len(reporting.records) = 3
    /\ Len(reporting.reports.labels) = 3
    /\ Cardinality(DOMAIN bucket) = 3

\* ---------------------------------------------------------------- C26
\* C26: a reporting run writes exactly one object for each cost center of
\* its records, under a key of its own, and leaves the other objects alone; run
\* again on the same day with the same records it writes the same keys with the
\* same contents over the earlier objects, so that the bucket is as it was.
RunWritesOnePerCostCenter ==
    handle_daily_reporting =>
        LET reports == reporting'.reports
            written == {get_report_key(label) : label \in Range(reports.labels)}
        IN /\ Cardinality(written) = Len(reports.labels)
           /\ Cardinality(written) =
                 Cardinality({reporting'.records[i].value["cost-center"] :
                                 i \in DOMAIN reporting'.records})
           /\ DOMAIN bucket' = DOMAIN bucket \cup written
           /\ \A label \in Range(reports.labels) :
                 bucket'[get_report_key(label)] = reports.buffers[label]
           /\ \A key \in DOMAIN bucket \ written : bucket'[key] = bucket[key]
           /\ reporting.handler = "daily" /\ reporting.day = today =>
                 /\ reports = reporting.reports
                 /\ bucket' = bucket

ReportingIsIdempotent == [][RunWritesOnePerCostCenter]_vars

\* A second run on the same day wrote two objects again and changed nothing.
ReportingIsIdempotentWitness ==
    /\ reporting.nth = 2
    /\ reporting.earlier[1].day = reporting.day
    /\ Len(reporting.reports.labels) = 2
    /\ Len(reporting.records) = 3
    /\ Cardinality(DOMAIN bucket) = 2
    /\ reporting.before = bucket

\* ---------------------------------------------------------------- C27
\* The starting events handled for a key, and the completion events of the key.
StartsOf(key) == {i \in DOMAIN started : started[i].key = key}
CompletionsOf(key) ==
    {i \in DOMAIN emitted :
        /\ emitted[i].payload.identifier \in StartsOf(key)
        /\ emitted[i].label = LabelOf(key[1])}

\* C27: with one invocation at a time, whatever events are handled, for
\* each account and kind the completion events emitted are never more than the
\* starting events handled, the ledger holds at most one open transaction, the
\* one of the last start, and each completion event carries the identifier
\* written by the last starting event of its kind and account before it.
CompletionsWithinStarts ==
    \A account \in Accounts : \A kind \in Kinds :
        LET key == Key(kind, account)
        IN /\ Cardinality(CompletionsOf(key)) <= Cardinality(StartsOf(key))
           /\ Cardinality({i \in StartsOf(key) :
                              /\ key \in DOMAIN datastore
                              /\ datastore[key].value.identifier = i}) <= 1
           /\ key \in DOMAIN datastore => datastore[key].value.identifier = LastStart(key)
           /\ \A i \in DOMAIN emitted :
                 emitted[i].label = LabelOf(kind) =>
                     \E j \in DOMAIN started : started[j].key[1] = kind
                                               /\ emitted[i].payload.identifier = j

CompletionFromLastStart ==
    \A p \in SeqInvocations :
        HandlerStep(p) /\ Emits =>
            LET e == emitted'[Len(emitted')]
            IN \E kind \in Kinds :
                  /\ e.label = LabelOf(kind)
                  /\ e.payload.identifier = LastStart(Key(kind, input[p].account))

MeteringInvariants == [][CompletionFromLastStart]_vars /\ []CompletionsWithinStarts

\* Two starts of a kind for an account, then one completion: it carries the second.
MeteringInvariantsWitness ==
    \E account \in Accounts : \E kind \in Kinds :
        /\ Cardinality(StartsOf(Key(kind, account))) = 2
        /\ Cardinality(CompletionsOf(Key(kind, account))) = 1
        /\ Len(emitted) = 1
        /\ emitted[1].payload.identifier = 2
        /\ Key(kind, account) \notin DOMAIN datastore

\* ---------------------------------------------------------------- C28
\* Invocation p executes the deletion of its transaction of the kind.
Deletes(p, kind) ==
    \/ kind = "Maintenance" /\ pc[p] = "maintenance_delete" /\ pc'[p] = "maintenance_emit"
    \/ kind = "OnBoarding" /\ pc[p] = "onboarding_delete" /\ pc'[p] = "onboarding_emit"

\* Invocation p executes a retrieval.
Retrieves(p) ==
    /\ pc[p] \in {"maintenance_retrieve", "onboarding_retrieve"}
    /\ pc'[p] # pc[p]

\* The identifiers of the transactions a deletion removed in place of another.
Overwritten == {l.identifier : l \in {x \in lost : x.by = "delete"}}

\* C28: when a starting event of an account is handled between the
\* retrieval and the deletion of a running ReleasedAccount handler of the
\* account, the deletion removes the transaction just written; no retrieval
\* after it finds that transaction, so a later ReleasedAccount emits nothing
\* for it; and the event of the first handler carries the begin and identifier
\* it had read, those of the older start.
DeleteRemovesFreshTransaction ==
    \A p \in Invocations :
        /\ \A kind \in Kinds :
              LET key == Key(kind, input[p].account)
              IN Deletes(p, kind) /\ key \in DOMAIN datastore
                 /\ datastore[key].value.identifier # transaction[p].identifier =>
                     /\ key \notin DOMAIN datastore'
                     /\ retrieve(key)' = None
                     /\ datastore[key].value.identifier \in Overwritten'
                     /\ transaction[p].identifier < datastore[key].value.identifier
                     /\ transaction'[p] = transaction[p]
        /\ Retrieves(p) /\ transaction'[p] # None =>
              transaction'[p].identifier \notin Overwritten
        /\ pc[p] \in {"maintenance_emit", "onboarding_emit"} /\ pc'[p] # pc[p] =>
              LET e == emitted'[Len(emitted')]
              IN /\ Emits
                 /\ e.payload.identifier = transaction[p].identifier
                 /\ e.payload.begin = started[transaction[p].identifier].begin
                 /\ \A l \in lost : l.by = "delete" /\ l.holder = transaction[p].identifier =>
                        /\ e.payload.identifier < l.identifier
                        /\ e.payload.begin <= started[l.identifier].begin

\* A transaction removed in place of another is not in the ledger.
OverwrittenIsGone ==
    \A i \in Overwritten :
        started[i].key \in DOMAIN datastore => datastore[started[i].key].value.identifier # i

RacingStartIsLost == [][DeleteRemovesFreshTransaction]_vars /\ []OverwrittenIsGone

\* The second start was removed by the handler that had read the first; that
\* handler reported the first, and a ReleasedAccount handled afterwards found
\* nothing and emitted nothing.
RacingStartIsLostWitness ==
    /\ lost = {[identifier |-> 2, by |-> "delete", holder |-> 1]}
    /\ Len(emitted) = 1
    /\ emitted[1].payload.identifier = 1
    /\ emitted[1].payload.begin = 0
    /\ started[2].begin = 1
    /\ prev.label = "ReleasedAccount"
    /\ prev.out = <<>>
    /\ prev.openAt = NoOpen
    /\ \A p \in Invocations : pc[p] = "idle"

\* ---------------------------------------------------------------- C29
\* The transactions whose completion event failed to be emitted.
Unreported == {l.identifier : l \in {x \in lost : x.by = "emit"}}

\* C29: when the emission of a completion event fails, after the
\* deletion of the record, the transaction is lost: the ledger does not hold
\* it, no handler retrieves it again, and no event is ever emitted for it,
\* whatever events are redelivered.
FailedEmissionLoses ==
    \A i \in Unreported :
        /\ started[i].key \in DOMAIN datastore =>
               datastore[started[i].key].value.identifier # i
        /\ \A e \in Range(emitted) : e.payload.identifier # i
        /\ \A p \in SeqInvocations :
               transaction[p] # None => transaction[p].identifier # i

\* The emission of the completion event of "a1" failed, then the ReleasedAccount
\* event was delivered again: it found nothing and emitted nothing.
FailedEmissionLosesWitness ==
    /\ Unreported = {1}
    /\ started[1].key[2] = "a1"
    /\ prev.label = "ReleasedAccount"
    /\ prev.account = "a1"
    /\ prev.openAt = NoOpen
    /\ prev.out = <<>>
    /\ result[1] = "OK"
    /\ pc[1] = "idle"
    /\ emitted = <<>>
    /\ now < TtlSeconds

\* ---------------------------------------------------------------- C30
\* The requests that change tags among those sent so far.
TagMutations == {i \in DOMAIN calls : calls[i].api \in {"tag_resource", "untag_resource"}}

\* C30: the Maintenance Scanner issues a move only for an account that
\* is active and tagged 'account:state' = 'released' at that moment, the state it
\* passes to move is always EXPIRED, only the account moved has its tags
\* changed, and in dry-run mode no request of the scan changes a tag.
ScanStepIsSafe ==
    /\ Len(scan'.moved) > Len(scan.moved) =>
          LET account == Head(scan.todo)
              issued == scan'.moved[Len(scan'.moved)]
          IN /\ scan.pc = "running"
             /\ Len(scan'.moved) = Len(scan.moved) + 1
             /\ issued = [account |-> account, state |-> EXPIRED]
             /\ status[account] = "ACTIVE"
             /\ Get(tags[account], "account:state") = PyStr("released")
    /\ tags' # tags =>
          /\ environ = "FALSE"
          /\ Len(scan'.moved) > Len(scan.moved)
          /\ \A other \in Ids \ {Head(scan.todo)} : tags'[other] = tags[other]
    /\ \A i \in DOMAIN calls' \ DOMAIN calls :
          calls'[i].api \in {"tag_resource", "untag_resource"} =>
              /\ environ = "FALSE"
              /\ calls'[i].ResourceId = Head(scan.todo)
              /\ Len(scan'.moved) > Len(scan.moved)

DryRunScanKeepsTags ==
    environ # "FALSE" => tags = lastCall.before /\ TagMutations = {}

ScanIsSafe == [][ScanStepIsSafe]_vars /\ []DryRunScanKeepsTags

\* A dry-run scan has gone through a suspended released account, an active
\* vanilla one and an active one without state tag, and issued nothing.
ScanIsSafeWitness ==
    /\ scan.pc = "done"
    /\ environ = Unset
    /\ Range(scan.examined) = Range(Listing)
    /\ \E a \in Range(scan.examined) :
          status[a] = "SUSPENDED" /\ Get(tags[a], "account:state") = PyStr("released")
    /\ \E a \in Range(scan.examined) :
          status[a] = "ACTIVE" /\ Get(tags[a], "account:state") = PyStr("vanilla")
    /\ \E a \in Range(scan.examined) :
          status[a] = "ACTIVE" /\ Get(tags[a], "account:state") = PyNone
    /\ scan.moved = <<>>
    /\ calls # <<>>
    /\ TagMutations = {}

\* ---------------------------------------------------------------- C31
\* A reporting handler runs in this step.
ReportingRuns == reporting'.nth = reporting.nth + 1

\* The record lacks a field of a report row.
Malformed(record) ==
    \E field \in {"cost-center", "account", "stamp", "transaction", "identifier", "duration"} :
        field \notin DOMAIN record.value

\* C31: when a record of the reporting window lacks one of the fields
\* cost-center, account, stamp, transaction, identifier or duration, the run
\* raises and writes no report object; no record is left out silently: a run that
\* does not raise has one data row for each record of the window.
BuildReportsFailsClosed ==
    ReportingRuns =>
        LET window == reporting'.records
        IN /\ (\E i \in DOMAIN window : Malformed(window[i])) =>
                  /\ reporting'.raised = "KeyError"
                  /\ bucket' = bucket
           /\ reporting'.raised = "none" =>
                  /\ \A i \in DOMAIN window : ~Malformed(window[i])
                  /\ DataRows(reporting'.reports, 1) = Len(window)

ReportingFailsClosed == [][BuildReportsFailsClosed]_vars

\* A daily run over a record with the fields of a report followed by a closed
\* transaction as the metering engine emits it: it raised and wrote nothing.
ReportingFailsClosedWitness ==
    /\ reporting.handler = "daily"
    /\ reporting.raised = "KeyError"
    /\ Len(reporting.records) = 2
    /\ ~Malformed(reporting.records[1])
    /\ DOMAIN reporting.records[2].value = {"begin", "end", "duration", "identifier", "stamp"}
    /\ bucket = <<>>

\* ---------------------------------------------------------------- C32
\* The days a report may be asked for.
QueryDays ==
    {Date(2023, 2, 28), Date(2023, 3, 1), Date(2023, 3, 2), Date(2023, 3, 3),
     Date(2023, 12, 31), Date(2024, 1, 1), Date(2024, 1, 2),
     Date(2024, 2, 28), Date(2024, 2, 29), Date(2024, 3, 1), Date(2024, 3, 2),
     Date(2024, 4, 30), Date(2024, 5, 1), Date(2024, 5, 2)}

\* The second of the day a range key tells.
SecondOf(range) == Number(SubSeq(range, 7, 8))

\* C32 (storing): handle_record adds one record and changes no other; its value is the
\* payload with 'stamp', a timestamp of today; its hash is the date part of
\* the stamp and its range the time-of-day part.
RecordIsStamped ==
    Len(table') = Len(table) + 1 =>
        LET record == table'[Len(table')]
            stamp == record.value["stamp"]
        IN /\ SubSeq(table', 1, Len(table)) = table
           /\ Len(stamp) = 19 /\ stamp[11] = "T"
           /\ ParseDate(SubSeq(stamp, 1, 10)) = today
           /\ record.hash = SubSeq(stamp, 1, 10)
           /\ record.range = SubSeq(stamp, 12, 19)
           /\ \E payload \in Payloads :
                 /\ DOMAIN record.value = DOMAIN payload \cup {"stamp"}
                 /\ \A field \in DOMAIN payload : record.value[field] = payload[field]

\* C32 (reading): for today and every day that has a record, a record
\* remembered on the date D is among get_records(day) exactly when D is in the month of 'day' and not after 'day'; each such
\* record comes once, in the order of the dates and then of the times.
RecordsOfMonthToDate ==
    \A day \in {d \in QueryDays :
                    \/ d = today
                    \/ \E i \in DOMAIN table : table[i].hash = SubSeq(isoformat(d), 1, 10)} :
        LET records == get_records(day)
            Wanted(record) == LET D == ParseDate(record.hash)
                              IN D.year = day.year /\ D.month = day.month /\ D.day <= day.day
        IN /\ \A i \in DOMAIN table :
                 Wanted(table[i]) <=> \E j \in DOMAIN records : records[j] = table[i]
           /\ Len(records) = Cardinality({i \in DOMAIN table : Wanted(table[i])})
           /\ \A j, k \in DOMAIN records :
                 j < k =>
                     \/ StringLess(records[j].hash, records[k].hash)
                     \/ /\ records[j].hash = records[k].hash
                        /\ SecondOf(records[j].range) < SecondOf(records[k].range)

RecordsAreFiledByDate == [][RecordIsStamped]_vars /\ []RecordsOfMonthToDate

\* Two events recorded on the last day of February and one on the first of
\* March: the first of March returns only the third, the last of February the
\* first two.
RecordsAreFiledByDateWitness ==
    /\ today = Date(2024, 3, 1)
    /\ Len(table) = 3
    /\ ParseDate(table[2].hash) = Date(2024, 2, 29)
    /\ SecondOf(table[1].range) < SecondOf(table[2].range)
    /\ get_records(Date(2024, 3, 1)) = <<table[3]>>
    /\ get_records(Date(2024, 2, 29)) = <<table[1], table[2]>>
    /\ get_records(Date(2024, 2, 28)) = <<>>

\* ---------------------------------------------------------------- C33
\* The month before the month of a date, and the number of its days in the
\* calendar, for the months of the model.
MonthBefore(d) ==
    IF d.month = 1 THEN [year |-> d.year - 1, month |-> 12]
                   ELSE [year |-> d.year, month |-> d.month - 1]
LengthOf(m) ==
    CASE m = [year |-> 2023, month |-> 2] -> 28
      [] m = [year |-> 2024, month |-> 2] -> 29
      [] m = [year |-> 2024, month |-> 4] -> 30
      [] m = [year |-> 2023, month |-> 12] -> 31

\* C33: the monthly run, on whatever day of a month, reads the date
\* buckets of every day of the month before, from the first to the last (28 to
\* 31 days, in the year before when the run is in January), in order, and no
\* bucket of the month of the run; the records it reports are those of these
\* buckets.
MonthlyReadsPreviousMonth ==
    ReportingRuns /\ reporting'.handler = "monthly" =>
        LET hashes == reporting'.hashes
            before == MonthBefore(today)
        IN /\ Len(hashes) = LengthOf(before)
           /\ Len(hashes) \in 28..31
           /\ \A i \in DOMAIN hashes :
                 /\ Len(hashes[i]) = 10
                 /\ ParseDate(hashes[i]) = Date(before.year, before.month, i)
                 /\ ParseDate(hashes[i]).month # today.month
           /\ \A i \in DOMAIN table :
                 (\E j \in DOMAIN reporting'.records : reporting'.records[j] = table[i])
                     <=> /\ ParseDate(table[i].hash).year = before.year
                         /\ ParseDate(table[i].hash).month = before.month

MonthlyRunReadsPreviousMonth == [][MonthlyReadsPreviousMonth]_vars

\* The monthly run of the second of January 2024 has read the 31 buckets of
\* December 2023, and of a record of the 31st of December and one of the first of
\* January only the former.
MonthlyRunReadsPreviousMonthWitness ==
    /\ reporting.handler = "monthly"
    /\ today = Date(2024, 1, 2)
    /\ Len(reporting.hashes) = 31
    /\ reporting.hashes[1] = <<"2", "0", "2", "3", "-", "1", "2", "-", "0", "1">>
    /\ reporting.hashes[31] = <<"2", "0", "2", "3", "-", "1", "2", "-", "3", "1">>
    /\ Len(table) = 2
    /\ ParseDate(table[2].hash) = Date(2024, 1, 1)
    /\ reporting.records = <<table[1]>>

\* ---------------------------------------------------------------- C34
\* The key is that of the cost center for the month of the date.
KeyOf(key, label, d) ==
    /\ Len(key) = 14
    /\ key[1] = "prefix" /\ key[2] = "/" /\ key[3] = label /\ key[4] = "/"
    /\ Number(SubSeq(key, 5, 8)) = d.year /\ key[9] = "-"
    /\ Number(SubSeq(key, 10, 11)) = d.month /\ key[12] = "-"
    /\ key[13] = label /\ key[14] = "-activities.csv"

\* C34: a run, daily or monthly, stores the report of a cost center
\* under the key of that cost center and of the month of the day of the run,
\* whatever the month of the records; it replaces what the key held, so a
\* monthly run stores the records of the month before under the key the daily
\* run of the month writes, and the later of the two runs overwrites the other.
ReportKeyTellsRunMonth ==
    ReportingRuns /\ reporting'.raised = "none" =>
        LET reports == reporting'.reports
        IN /\ \A i \in DOMAIN reports.labels :
                 \E key \in DOMAIN bucket' :
                     /\ KeyOf(key, reports.labels[i], today)
                     /\ bucket'[key] = reports.buffers[reports.labels[i]]
           /\ \A key \in DOMAIN bucket' :
                 \/ \E i \in DOMAIN reports.labels : KeyOf(key, reports.labels[i], today)
                 \/ key \in DOMAIN bucket /\ bucket'[key] = bucket[key]
           /\ reporting'.handler = "monthly" =>
                 \A key \in DOMAIN bucket' \ DOMAIN bucket :
                     Number(SubSeq(key, 10, 11)) # MonthBefore(today).month

ReportKeyIsOfRunMonth == [][ReportKeyTellsRunMonth]_vars

\* In March 2024 a daily run wrote the report of cc1 for the record of the first
\* of March, then the monthly run wrote the record of the 29th of February under
\* the same key: the bucket holds one object, the report of February.
ReportKeyIsOfRunMonthWitness ==
    /\ today.month = 3 /\ today.year = 2024
    /\ reporting.handler = "monthly"
    /\ reporting.nth = 2
    /\ reporting.raised = "none"
    /\ Len(table) = 2
    /\ ParseDate(table[1].hash) = Date(2024, 2, 29)
    /\ ParseDate(table[2].hash) = Date(2024, 3, 1)
    /\ reporting.records = <<table[1]>>
    /\ reporting.earlier[1].reports.labels = <<"cc1">>
    /\ reporting.earlier[1].reports # reporting.reports
    /\ Cardinality(DOMAIN bucket) = 1
    /\ DOMAIN reporting.before = DOMAIN bucket
    /\ \A key \in DOMAIN bucket :
          /\ KeyOf(key, "cc1", Date(2024, 3, 1))
          /\ reporting.before[key] = reporting.earlier[1].reports.buffers["cc1"]
          /\ bucket[key] = reporting.reports.buffers["cc1"]
          /\ bucket[key] # reporting.before[key]

\* ---------------------------------------------------------------- C37
\* The keys of the ledger whose record is written, replaced or removed by a step.
ChangedKeys ==
    {key \in DOMAIN datastore \cup DOMAIN datastore' :
        \/ key \notin DOMAIN datastore
        \/ key \notin DOMAIN datastore'
        \/ datastore'[key] # datastore[key]}

\* The keys an event may touch.
KeysOf(event) ==
    CASE event.label = "CreatedAccount" -> {Key("OnBoarding", event.account)}
      [] event.label = "ExpiredAccount" -> {Key("Maintenance", event.account)}
      [] event.label = "ReleasedAccount" -> {Key("OnBoarding", event.account),
                                             Key("Maintenance", event.account)}
      [] OTHER -> {}

HandlerTouchesOwnKeys ==
    \A p \in Invocations :
        (pc[p] # "idle" /\ pc'[p] # pc[p]) => ChangedKeys \subseteq KeysOf(input[p])

\* C37: every statement of the handler of a metering event for account X leaves
\* the ledger records of every other account as they are; CreatedAccount changes
\* at most the record 'OnBoarding X', ExpiredAccount at most 'Maintenance X',
\* ReleasedAccount at most these two.
HandlerFrame == [][HandlerTouchesOwnKeys]_vars

\* CreatedAccount of a1 has just been handled while a1 is in maintenance and a2
\* is on-boarding: the new record stands next to the two others.
HandlerFrameWitness ==
    /\ pc[1] = "return"
    /\ input[1] = [label |-> "CreatedAccount", account |-> "a1"]
    /\ DOMAIN datastore = {Key("OnBoarding", "a1"), Key("Maintenance", "a1"),
                           Key("OnBoarding", "a2")}
    /\ datastore[Key("OnBoarding", "a1")].value.identifier >
          datastore[Key("OnBoarding", "a2")].value.identifier
    /\ datastore[Key("OnBoarding", "a2")].value.identifier >
          datastore[Key("Maintenance", "a1")].value.identifier

\* ---------------------------------------------------------------- C35
\* The create_project requests of the invocation.
Attempts == SelectSeq(worker.calls, LAMBDA call : call.method = "create_project")

Last(requests) == requests[Len(requests)]

\* One turn of the loop: one create_project; the loop goes on only after
\* ResourceAlreadyExistsException, the project deleted, or InvalidInputException,
\* and the counter is one more; a created project ends the loop.
DeployTurn ==
    (worker.pc = "deploy" /\ worker' # worker) =>
        /\ worker'.attempts = worker.attempts + 1
        /\ \E k \in {1, 2} :
              /\ Len(worker'.calls) = Len(worker.calls) + k
              /\ worker'.calls[Len(worker.calls) + 1].method = "create_project"
              /\ k = 2 => Last(worker'.calls) =
                             Request("delete_project", ProjectName(worker.operation))
        /\ worker'.created => worker'.pc = "run" /\ worker'.retries = worker.retries
        /\ worker'.raised # "none" => worker'.pc = "raised" /\ worker'.retries = worker.retries
        /\ (~worker'.created /\ worker'.raised = "none") =>
              /\ worker'.retries = worker.retries + 1
              /\ worker'.slept = worker.slept + 5 * worker'.retries
              /\ worker'.pc = "deploy" <=> worker'.retries < MaxRetries
        /\ worker'.pc = "deploy" => ~worker'.created /\ worker'.raised = "none"

DeployBounded ==
    /\ Len(Attempts) = worker.attempts
    /\ worker.attempts <= MaxRetries
    /\ worker.retries <= worker.attempts
    /\ worker.slept <= 5 * (1 + 2 + 3 + 4 + 5)
    /\ worker.created => worker.pc # "deploy" /\ Last(Attempts) \in
                            {Last(worker.calls), worker.calls[Len(worker.calls) - 1]}
    /\ worker.pc = "deploy" => worker.retries = worker.attempts

\* C35: deploy_project ends after at most 5 create_project requests: it stops at
\* the first that succeeds, goes on only after ResourceAlreadyExistsException
\* (having deleted the project) or InvalidInputException, counts each of these,
\* and leaves the loop whatever Codebuild keeps answering.
DeployProjectTerminates ==
    /\ [][DeployTurn]_vars
    /\ []DeployBounded
    /\ (worker.pc = "deploy") ~> (worker.pc # "deploy")

\* Five requests were refused, for a project that existed and for a role not yet
\* usable: the loop is over after 75 seconds of sleep.
DeployProjectTerminatesWitness ==
    /\ worker.pc = "run"
    /\ worker.retries = MaxRetries
    /\ worker.attempts = MaxRetries
    /\ worker.slept = 75
    /\ ~worker.created
    /\ worker.role = RoleArn
    /\ Last(worker.calls).method = "create_project"
    /\ \E i \in DOMAIN worker.calls : worker.calls[i].method = "delete_project"

\* ---------------------------------------------------------------- C36
WorkerGoesOn ==
    /\ (worker.pc = "deploy" /\ worker'.retries = MaxRetries /\ worker' # worker) =>
          /\ worker'.pc = "run"
          /\ worker'.raised = "none"
          /\ ~worker'.created
    /\ (worker.pc = "run" /\ worker' # worker) =>
          /\ worker'.calls = Append(worker.calls,
                                    Request("start_build", ProjectName(worker.operation)))
          /\ worker'.pc \in {"done", "raised"}
    /\ (worker.pc = "role" /\ worker' # worker /\ worker'.role = "None") =>
          /\ worker'.pc = "deploy"
          /\ worker'.raised = "none"
    /\ (worker.pc = "deploy" /\ worker' # worker) =>
          Request("create_project", worker.role) \in
              {worker'.calls[i] : i \in (Len(worker.calls) + 1)..Len(worker'.calls)}

WorkerHasRun ==
    worker.pc = "done" =>
        Last(worker.calls) = Request("start_build", ProjectName(worker.operation))

\* C36: after five failed attempts deploy_project returns without raising, and
\* prepare and purge start a build of a project this invocation did not create; a
\* role deployment that returned None is followed by the create_project request
\* all the same.
WorkerIgnoresFailure == [][WorkerGoesOn]_vars /\ []WorkerHasRun

\* purge has started a build although the role was not deployed and the five
\* create_project requests, sent without a role, all failed.
WorkerIgnoresFailureWitness ==
    /\ worker.operation = "purge"
    /\ worker.pc = "done"
    /\ worker.role = "None"
    /\ worker.retries = MaxRetries
    /\ ~worker.created
    /\ worker.raised = "none"
    /\ Len(Attempts) = MaxRetries
    /\ \A i \in DOMAIN Attempts : Attempts[i].argument = "None"
    /\ Last(worker.calls) = Request("start_build", "SpaProjectForAccountPurge")

\* ---------------------------------------------------------------- C38
\* The records of the queue among those whose handling has begun.
SqsHandled == SelectSeq(alert.handled, LAMBDA record : record.eventSource = "aws:sqs")

\* The notification the relay owes to a record of the queue.
Owed(record) ==
    LET body == json_loads(record.body)
    IN IF body = JSONDecodeError THEN relay_message(record.body)
       ELSE IF body.type = "dict" /\ "TopicArn" \in DOMAIN body.value
               /\ Len(split(body.value.TopicArn, ":")) > 4
       THEN [Subject |-> get_subject(split(body.value.TopicArn, ":")[5])]
       ELSE <<>>

\* C38: handle_queue_event publishes exactly one notification for each record of
\* the queue, in the order of the records: with the account of its TopicArn in
\* subject and message when the body is JSON, as it came under the subject
\* 'Alert message' when it is not; a record of another source raises, the records
\* after it are not relayed and the notifications published before it stay.
OneNotificationPerRecord ==
    /\ Len(alert.published) = Len(SqsHandled)
    /\ \A i \in DOMAIN alert.published :
          LET record == SqsHandled[i]
              sent == alert.published[i]
          IN IF json_loads(record.body) = JSONDecodeError
             THEN sent = relay_message(record.body)
             ELSE /\ Owed(record) # <<>>
                  /\ sent.Subject = Owed(record).Subject
                  /\ sent.Message[2] = split(json_loads(record.body).value.TopicArn, ":")[5]
    /\ \A i \in DOMAIN alert.handled :
          alert.handled[i].eventSource # "aws:sqs" =>
              /\ i = Len(alert.handled)
              /\ alert.pc = "raised"
              /\ alert.raised = "AttributeError"

\* ---------------------------------------------------------------- C39
\* The request carries the four headers of a navigation from another site.
GatePassed ==
    /\ DOMAIN download.headers = {"sec-fetch-mode", "sec-fetch-site", "sec-fetch-user",
                                  "sec-fetch-dest"}
    /\ download.headers["sec-fetch-mode"] = "navigate"
    /\ download.headers["sec-fetch-site"] = "cross-site"
    /\ download.headers["sec-fetch-user"] = "?1"
    /\ download.headers["sec-fetch-dest"] = "document"

Dangerous ==
    \/ \E i \in DOMAIN download.path : download.path[i] = "?"
    \/ \E i \in 1..(Len(download.path) - 1) :
          download.path[i] = "." /\ download.path[i + 1] = "."

====
